---- MODULE Spec2Model ----
(***************************************************************************)
(* Model of the Cloud Trace data source back end:                          *)
(*   - Client.ListTraces      (bounded, paginated retrieval)               *)
(*   - createTracesTableFrame (summary shaping)                            *)
(*   - GetListTracesFilter    (filter translation)                         *)
(* Text is modelled as a sequence of one-character strings, so that        *)
(* splitting, case folding and concatenation are computed, not assumed.    *)
(***************************************************************************)
EXTENDS Integers, Sequences, FiniteSets, TLC

VARIABLES
    \* ---- Client.ListTraces ----
    q,          \* the TracesQuery: [Limit |-> int64]
    script,     \* the remote iterator's behaviour: the trace or error of each it.Next(), then Done
    pageSize,   \* req.PageSize
    i,          \* the loop counter
    entries,    \* the accumulator
    fetches,    \* number of it.Next() calls issued so far
    ltpc,       \* position in ListTraces: "start", "loop", "done"
    ret,        \* what ListTraces returned: [entries, err]
    \* ---- createTracesTableFrame ----
    traces,     \* the batch handed to createTracesTableFrame
    frame,      \* the frame it returned: column name -> values
    tfpc,       \* "start", "done"
    \* ---- GetListTracesFilter ----
    queryText,  \* the text typed by the user
    filterRet,  \* what GetListTracesFilter returned: [filter, err]
    gfpc,       \* "start", "done"
    \* ---- Client.ListProjects ----
    projResp,   \* what rClient.List().Do() answers: [err, Projects]
    projRet,    \* what ListProjects returned: [projectIDs, isNil, err]
    lppc,       \* "start", "done"
    \* ---- Client.TestConnection ----
    tcProject,  \* the projectID argument
    tcCtxErr,   \* listCtx.Err() once the iterator is created
    tcNext,     \* what the one it.Next() yields: [entry, err]
    tcRet,      \* the error TestConnection returned, <<>> for nil
    tcpc,       \* "start", "fetch", "done"
    \* ---- GetSpanOperationName, GetServiceName ----
    spanIn,     \* the span handed to the name helpers
    spanOut,    \* [operationName, serviceName]
    sppc,       \* "start", "done"
    \* ---- GetTags ----
    tagLabels,  \* the labels of the span handed to GetTags
    tagsOut,    \* what GetTags returned: [serviceTags, spanTags, err]
    tgpc,       \* "start", "done"
    \* ---- concurrent Client.ListTraces invocations, one entry per invocation ----
    cq,         \* the TracesQuery of each invocation
    cscript,    \* the behaviour of the iterator each invocation opens
    cpageSize,  \* each invocation's pageSize
    ci,         \* each invocation's loop counter
    centries,   \* each invocation's accumulator
    cfetches,   \* number of it.Next() calls each invocation has issued
    cpc,        \* each invocation's position: "start", "loop", "done"
    cret,       \* what each invocation returned: [entries, err]
    \* ---- QueryData ----
    dreq,       \* req.Queries
    remote,     \* the state of the remote service behind d.client
    didx,       \* number of queries the loop has run
    dresp,      \* response.Responses: RefID -> [Error, Frames]
    dcalls,     \* the calls made so far on d.client and on the translator
    dret,       \* the error QueryData returned: "none" until it returns
    dpc,        \* "loop", "done"
    \* ---- the life of the instance ----
    closes,     \* number of times the connection of the client was closed
    disposed,   \* Dispose was called
    lops,       \* number of handler calls served
    lres        \* what the last call returned

vars == <<q, script, pageSize, i, entries, fetches, ltpc, ret,
          traces, frame, tfpc, queryText, filterRet, gfpc,
          projResp, projRet, lppc, tcProject, tcCtxErr, tcNext, tcRet, tcpc,
          spanIn, spanOut, sppc, tagLabels, tagsOut, tgpc,
          cq, cscript, cpageSize, ci, centries, cfetches, cpc, cret,
          dreq, remote, didx, dresp, dcalls, dret, dpc,
          closes, disposed, lops, lres>>

listVars == <<q, script, pageSize, i, entries, fetches, ltpc, ret>>
tableVars == <<traces, frame, tfpc>>
filterVars == <<queryText, filterRet, gfpc>>
projVars == <<projResp, projRet, lppc>>
connVars == <<tcProject, tcCtxErr, tcNext, tcRet, tcpc>>
spanVars == <<spanIn, spanOut, sppc>>
tagVars == <<tagLabels, tagsOut, tgpc>>

\* the components added after the first six, and the first six
concVars == <<cq, cscript, cpageSize, ci, centries, cfetches, cpc, cret>>
dsVars == <<dreq, remote, didx, dresp, dcalls, dret, dpc>>
lifeVars == <<closes, disposed, lops, lres>>
orchVars == <<dsVars, lifeVars>>
laterVars == <<tagVars, concVars, orchVars>>
earlierVars == <<listVars, tableVars, filterVars, projVars, connVars, spanVars>>

(***************************************************************************)
(* Bounds of the model.                                                    *)
(***************************************************************************)
\* longest behaviour of the remote iterator (entries and errors before Done)
MaxRemote == 4
\* most traces in one batch given to createTracesTableFrame
MaxTraces == 2
\* most spans in one trace
MaxSpans == 1
\* most pieces a query text is put together from
MaxPieces == 4
\* most projects in one answer of the resource manager
MaxProjects == 3
\* longest behaviour of an iterator opened by a concurrent invocation
MaxConcRemote == 2

(***************************************************************************)
(* Text helpers.                                                           *)
(***************************************************************************)
Upper == <<"A","B","C","D","E","F","G","H","I","J","K","L","M","N","O","P","Q","R","S","T","U","V","W","X","Y","Z">>
Lower == <<"a","b","c","d","e","f","g","h","i","j","k","l","m","n","o","p","q","r","s","t","u","v","w","x","y","z">>

LowerChar(c) ==
    IF \E n \in DOMAIN Upper : Upper[n] = c
    THEN Lower[CHOOSE n \in DOMAIN Upper : Upper[n] = c]
    ELSE c

\* strings.ToLower
ToLower(s) == [n \in DOMAIN s |-> LowerChar(s[n])]

\* strings.Index for a one-character separator; 0 when absent
Index(s, c) ==
    IF \E n \in DOMAIN s : s[n] = c
    THEN CHOOSE n \in DOMAIN s : s[n] = c /\ \A m \in 1..(n - 1) : s[m] # c
    ELSE 0

\* strings.SplitN(s, sep, 2): one part when sep is absent, else the text
\* before the first sep and everything after it
SplitN2(s, sep) ==
    LET n == Index(s, sep)
    IN  IF n = 0 THEN <<s>>
        ELSE <<SubSeq(s, 1, n - 1), SubSeq(s, n + 1, Len(s))>>

\* strings.Contains
Contains(s, sub) ==
    \E n \in 0..(Len(s) - Len(sub)) : SubSeq(s, n + 1, n + Len(sub)) = sub

\* strings.HasPrefix
HasPrefix(s, p) == Len(s) >= Len(p) /\ SubSeq(s, 1, Len(p)) = p

\* strings.Join
RECURSIVE Join(_, _)
Join(parts, sep) ==
    IF parts = <<>> THEN <<>>
    ELSE IF Len(parts) = 1 THEN parts[1]
    ELSE parts[1] \o sep \o Join(Tail(parts), sep)

Min(a, b) == IF a < b THEN a ELSE b

(***************************************************************************)
(* Client.ListTraces                                                       *)
(***************************************************************************)
NilErr == "nil"
IterErr == "rpc error"
TraceIds == {"t1", "t2"}

\* the ceiling of the remote page size
MaxPageSize == 1000

\* Limit values tried: non-positive, small, around the ceiling and large
LimitValues == {-1, 0, 1, 2, 3, 999, 1000, 1001, 2147483647}

RECURSIVE SeqsUpTo(_, _)
SeqsUpTo(S, n) ==
    IF n = 0 THEN {<<>>}
    ELSE LET shorter == SeqsUpTo(S, n - 1)
         IN  shorter \cup {Append(s, x) : s \in {t \in shorter : Len(t) = n - 1}, x \in S}

\* every behaviour of the remote iterator: entries and errors in any order,
\* then exhaustion
Scripts(n) == SeqsUpTo(TraceIds \cup {IterErr}, n)

\* pageSize := int32(math.Min(float64(q.Limit), 1000)); every Limit of the
\* model is exactly representable as a float64 and the minimum fits an int32
PageSize_nocap(limit) == limit
PageSize(limit) == Min(limit, MaxPageSize)

InitListVars ==
    /\ q \in [Limit : LimitValues]
    /\ script \in Scripts(MaxRemote)
    /\ pageSize = 0
    /\ i = 0
    /\ entries = <<>>
    /\ fetches = 0
    /\ ltpc = "start"
    /\ ret = [entries |-> <<>>, err |-> NilErr]

IdleListVars ==
    /\ q = [Limit |-> 1]
    /\ script = <<>>
    /\ pageSize = 0
    /\ i = 0
    /\ entries = <<>>
    /\ fetches = 0
    /\ ltpc = "idle"
    /\ ret = [entries |-> <<>>, err |-> NilErr]

\* the outcome of the next it.Next(): the script's next step, Done after it
NextOutcome == IF fetches < Len(script) THEN script[fetches + 1] ELSE "done"

\* builds the request and opens the iterator (tClient.ListTraces never
\* returns a nil iterator)
ListTracesStart ==
    /\ ltpc = "start"
    /\ pageSize' = PageSize(q.Limit)
    /\ i' = 0
    /\ entries' = <<>>
    /\ ltpc' = "loop"
    /\ UNCHANGED <<q, script, fetches, ret>>
    /\ UNCHANGED <<tableVars, filterVars, projVars, connVars, spanVars, laterVars>>

ItNextEntry_late ==
    /\ ltpc = "loop"
    /\ fetches < Len(script)
    /\ NextOutcome # IterErr
    /\ fetches' = fetches + 1
    /\ entries' = Append(entries, NextOutcome)
    /\ i' = i + 1
    /\ IF i' > q.Limit
       THEN /\ ltpc' = "done"
            /\ ret' = [entries |-> entries', err |-> NilErr]
       ELSE /\ ltpc' = "loop"
            /\ ret' = ret
    /\ UNCHANGED <<q, script, pageSize>>
    /\ UNCHANGED <<tableVars, filterVars, projVars, connVars, spanVars, laterVars>>

\* it.Next() yields a trace: append, count, stop at the limit
ItNextEntry ==
    /\ ltpc = "loop"
    /\ fetches < Len(script)
    /\ NextOutcome # IterErr
    /\ fetches' = fetches + 1
    /\ entries' = Append(entries, NextOutcome)
    /\ i' = i + 1
    /\ IF i' >= q.Limit
       THEN /\ ltpc' = "done"
            /\ ret' = [entries |-> entries', err |-> NilErr]
       ELSE /\ ltpc' = "loop"
            /\ ret' = ret
    /\ UNCHANGED <<q, script, pageSize>>
    /\ UNCHANGED <<tableVars, filterVars, projVars, connVars, spanVars, laterVars>>

\* it.Next() yields iterator.Done: break, return what was gathered
ItNextDone ==
    /\ ltpc = "loop"
    /\ fetches >= Len(script)
    /\ fetches' = fetches + 1
    /\ ltpc' = "done"
    /\ ret' = [entries |-> entries, err |-> NilErr]
    /\ UNCHANGED <<q, script, pageSize, i, entries>>
    /\ UNCHANGED <<tableVars, filterVars, projVars, connVars, spanVars, laterVars>>

ItNextErr_discard ==
    /\ ltpc = "loop"
    /\ fetches < Len(script)
    /\ NextOutcome = IterErr
    /\ fetches' = fetches + 1
    /\ ltpc' = "done"
    /\ ret' = [entries |-> <<>>, err |-> IterErr]
    /\ UNCHANGED <<q, script, pageSize, i, entries>>
    /\ UNCHANGED <<tableVars, filterVars, projVars, connVars, spanVars, laterVars>>

\* it.Next() yields an error: it is logged, the loop breaks and the
\* entries gathered so far are returned with a nil error
ItNextErr ==
    /\ ltpc = "loop"
    /\ fetches < Len(script)
    /\ NextOutcome = IterErr
    /\ fetches' = fetches + 1
    /\ ltpc' = "done"
    /\ ret' = [entries |-> entries, err |-> NilErr]
    /\ UNCHANGED <<q, script, pageSize, i, entries>>
    /\ UNCHANGED <<tableVars, filterVars, projVars, connVars, spanVars, laterVars>>

ListTraces ==
    \/ ListTracesStart
    \/ ItNextEntry
    \/ ItNextDone
    \/ ItNextErr

(***************************************************************************)
(* Spans, traces and the name helpers of package cloudtrace                *)
(***************************************************************************)
otelServiceKey == <<"s","e","r","v","i","c","e",".","n","a","m","e">>
gaeServiceKey == <<"g",".","c","o","/","g","a","e","/","a","p","p","/","m","o","d","u","l","e">>
gaeServiceVersionKey == <<"g",".","c","o","/","g","a","e","/","a","p","p","/","v","e","r","s","i","o","n">>
otelMethodKey == <<"h","t","t","p",".","m","e","t","h","o","d">>
cloudTraceMethodKey == <<"/","h","t","t","p","/","m","e","t","h","o","d">>

\* labels[key] of a Go map: the empty string when the key is absent
Label(labels, key) == IF key \in DOMAIN labels THEN labels[key] ELSE <<>>

GetServiceName(span) ==
    LET serviceName == Label(span.Labels, otelServiceKey)
    IN  IF serviceName = <<>> THEN Label(span.Labels, gaeServiceKey) ELSE serviceName

\* getHTTPMethod asking the legacy key first
getHTTPMethod_legacyFirst(span) ==
    LET httpMethod == Label(span.Labels, cloudTraceMethodKey)
    IN  IF httpMethod = <<>> THEN Label(span.Labels, otelMethodKey) ELSE httpMethod

getHTTPMethod(span) ==
    LET httpMethod == Label(span.Labels, otelMethodKey)
    IN  IF httpMethod = <<>> THEN Label(span.Labels, cloudTraceMethodKey) ELSE httpMethod

GetTraceName(span) ==
    LET namePart == span.Name
        service == GetServiceName(span)
        servicePart == IF service # <<>> THEN service \o <<":", " ">> ELSE service
        method == getHTTPMethod(span)
        methodPart == IF method # <<>>
                      THEN <<"H","T","T","P"," ">> \o method \o <<" ">>
                      ELSE method
    IN  servicePart \o methodPart \o namePart

GetSpanOperationName(span) ==
    LET namePart == span.Name
        method == getHTTPMethod(span)
        methodPart == IF method # <<>>
                      THEN <<"H","T","T","P"," ">> \o method \o <<" ">>
                      ELSE method
    IN  methodPart \o namePart

\* time.Time.UnixMilli of a timestamp given in microseconds since the epoch
UnixMilli(t) == t \div 1000

NoLabels == [k \in {} |-> <<>>]
NameSp == <<"s","p">>
ValGET == <<"G","E","T">>
ValSvc == <<"s","v","c">>

\* the spans tried: with and without name, method and service labels, with
\* start and end times (microseconds) on and off millisecond boundaries
SpanPool ==
    { [Name |-> <<>>, Labels |-> NoLabels, StartTime |-> 0, EndTime |-> 1000],
      [Name |-> NameSp, Labels |-> (cloudTraceMethodKey :> ValGET),
       StartTime |-> 900, EndTime |-> 1100],
      [Name |-> NameSp, Labels |-> (gaeServiceKey :> ValSvc @@ otelMethodKey :> <<>>),
       StartTime |-> 2000, EndTime |-> 1000],
      [Name |-> <<>>, Labels |-> (otelServiceKey :> ValSvc @@ otelMethodKey :> ValGET),
       StartTime |-> 1500, EndTime |-> 2500] }

Traces(maxSpans) == [TraceId : TraceIds, Spans : SeqsUpTo(SpanPool, maxSpans)]

Batches(maxTraces, maxSpans) == SeqsUpTo(Traces(maxSpans), maxTraces)

(***************************************************************************)
(* createTracesTableFrame                                                  *)
(***************************************************************************)
ColTraceID == "Trace ID"
ColTraceName == "Trace name"
ColStartTime == "Start time"
ColLatency == "Latency"
TableColumns == {ColTraceID, ColTraceName, ColStartTime, ColLatency}

EmptyTableFrame == [c \in TableColumns |-> <<>>]

\* one pass of the loop taking the latency from the difference of the two
\* timestamps instead of the difference of their milliseconds
tableAppend_latencyOfDifference(f, t) ==
    LET f1 == [f EXCEPT ![ColTraceID] = Append(@, t.TraceId)]
    IN  IF Len(t.Spans) < 1 THEN f1
        ELSE LET rootSpan == t.Spans[1]
                 latency == UnixMilli(rootSpan.EndTime - rootSpan.StartTime)
             IN  [f1 EXCEPT ![ColTraceName] = Append(@, GetTraceName(rootSpan)),
                            ![ColStartTime] = Append(@, rootSpan.StartTime),
                            ![ColLatency] = Append(@, latency)]

\* one pass of the loop over the batch: the trace id is appended first, then
\* a trace without spans is skipped, else the root span fills the other fields
tableAppend(f, t) ==
    LET f1 == [f EXCEPT ![ColTraceID] = Append(@, t.TraceId)]
    IN  IF Len(t.Spans) < 1 THEN f1
        ELSE LET rootSpan == t.Spans[1]
                 latency == UnixMilli(rootSpan.EndTime) - UnixMilli(rootSpan.StartTime)
             IN  [f1 EXCEPT ![ColTraceName] = Append(@, GetTraceName(rootSpan)),
                            ![ColStartTime] = Append(@, rootSpan.StartTime),
                            ![ColLatency] = Append(@, latency)]

RECURSIVE tableLoop(_, _)
tableLoop(ts, f) ==
    IF ts = <<>> THEN f ELSE tableLoop(Tail(ts), tableAppend(f, Head(ts)))

createTracesTableFrame(ts) == tableLoop(ts, EmptyTableFrame)

InitTableVars ==
    /\ traces \in Batches(MaxTraces, MaxSpans)
    /\ frame = EmptyTableFrame
    /\ tfpc = "start"

IdleTableVars ==
    /\ traces = <<>>
    /\ frame = EmptyTableFrame
    /\ tfpc = "idle"

CreateTracesTableFrame ==
    /\ tfpc = "start"
    /\ frame' = createTracesTableFrame(traces)
    /\ tfpc' = "done"
    /\ UNCHANGED traces
    /\ UNCHANGED <<listVars, filterVars, projVars, connVars, spanVars, laterVars>>

(***************************************************************************)
(* GetListTracesFilter                                                     *)
(***************************************************************************)
Colon == ":"
Quote == "\""
Backslash == "\\"
Space == " "

\* \s of the regular expression
IsSpace(c) == c \in {" ", "\t", "\n", "\f", "\r"}

\* [^\s"]+ from position p: the position after the longest run, p when empty
RECURSIVE bareEnd(_, _)
bareEnd(s, p) ==
    IF p <= Len(s) /\ ~IsSpace(s[p]) /\ s[p] # Quote THEN bareEnd(s, p + 1) ELSE p

\* (?:\\"|[^"])*" from position p, alternatives tried in the order of the
\* expression (escaped quote, any other character, then the closing quote):
\* the position after the closing quote, 0 when there is no match
RECURSIVE quotedEnd(_, _)
quotedEnd(s, p) ==
    LET viaEscape == IF p + 1 <= Len(s) /\ s[p] = Backslash /\ s[p + 1] = Quote
                     THEN quotedEnd(s, p + 2) ELSE 0
        viaChar == IF p <= Len(s) /\ s[p] # Quote THEN quotedEnd(s, p + 1) ELSE 0
    IN  IF viaEscape # 0 THEN viaEscape
        ELSE IF viaChar # 0 THEN viaChar
        ELSE IF p <= Len(s) /\ s[p] = Quote THEN p + 1
        ELSE 0

\* (?:[^\s"]+|"(?:\\"|[^"])*")+ from position p: the position after the
\* match, p when there is none
RECURSIVE matchEnd(_, _)
matchEnd(s, p) ==
    LET b == bareEnd(s, p)
    IN  IF b > p THEN matchEnd(s, b)
        ELSE IF p <= Len(s) /\ s[p] = Quote
        THEN LET e == quotedEnd(s, p + 1)
             IN  IF e # 0 THEN matchEnd(s, e) ELSE p
        ELSE p

\* re.FindAllString(queryText, -1): successive leftmost matches
RECURSIVE findAllFrom(_, _)
findAllFrom(s, p) ==
    IF p > Len(s) THEN <<>>
    ELSE LET e == matchEnd(s, p)
         IN  IF e > p THEN <<SubSeq(s, p, e - 1)>> \o findAllFrom(s, e)
             ELSE findAllFrom(s, p + 1)

FindAllString(s) == findAllFrom(s, 1)

\* a nil error; every error built by the translator has a non-empty text
NoErr == <<>>

ErrKeyValue(qTFilter) ==
    <<"b","a","d"," ","f","i","l","t","e","r"," ","[">> \o qTFilter \o
    <<"]","."," ","M","u","s","t"," ","b","e"," ","i","n"," ","f","o","r","m"," ","[","k","e","y","]",":","[","v","a","l","u","e","]">>

ErrLabelKeyValue(qTFilter) ==
    <<"b","a","d"," ","f","i","l","t","e","r"," ","[">> \o qTFilter \o
    <<"]","."," ","M","u","s","t"," ","b","e"," ","i","n"," ","f","o","r","m"," ","L","A","B","E","L",":","[","k","e","y","]",":","[","v","a","l","u","e","]">>

\* the switch with the native keys of Version and Service exchanged
convertKey_swapped(key) ==
    CASE key = <<"R","o","o","t","S","p","a","n">> -> <<"r","o","o","t">>
      [] key = <<"S","p","a","n","N","a","m","e">> -> <<"s","p","a","n">>
      [] key = <<"H","a","s","L","a","b","e","l">> -> <<"l","a","b","e","l">>
      [] key = <<"M","i","n","L","a","t","e","n","c","y">> -> <<"l","a","t","e","n","c","y">>
      [] key = <<"U","R","L">> -> <<"u","r","l">>
      [] key = <<"M","e","t","h","o","d">> -> <<"m","e","t","h","o","d">>
      [] key = <<"V","e","r","s","i","o","n">> -> gaeServiceKey
      [] key = <<"S","e","r","v","i","c","e">> -> gaeServiceVersionKey
      [] key = <<"S","t","a","t","u","s">> -> <<"/","h","t","t","p","/","s","t","a","t","u","s","_","c","o","d","e">>
      [] OTHER -> key

\* the switch matching the friendly keys in any letter case
convertKey_ignoreCase(key) ==
    CASE ToLower(key) = <<"r","o","o","t","s","p","a","n">> -> <<"r","o","o","t">>
      [] ToLower(key) = <<"s","p","a","n","n","a","m","e">> -> <<"s","p","a","n">>
      [] ToLower(key) = <<"h","a","s","l","a","b","e","l">> -> <<"l","a","b","e","l">>
      [] ToLower(key) = <<"m","i","n","l","a","t","e","n","c","y">> -> <<"l","a","t","e","n","c","y">>
      [] ToLower(key) = <<"u","r","l">> -> <<"u","r","l">>
      [] ToLower(key) = <<"m","e","t","h","o","d">> -> <<"m","e","t","h","o","d">>
      [] ToLower(key) = <<"v","e","r","s","i","o","n">> -> gaeServiceVersionKey
      [] ToLower(key) = <<"s","e","r","v","i","c","e">> -> gaeServiceKey
      [] ToLower(key) = <<"s","t","a","t","u","s">> -> <<"/","h","t","t","p","/","s","t","a","t","u","s","_","c","o","d","e">>
      [] OTHER -> key

\* the switch over the friendly keys
convertKey(key) ==
    CASE key = <<"R","o","o","t","S","p","a","n">> -> <<"r","o","o","t">>
      [] key = <<"S","p","a","n","N","a","m","e">> -> <<"s","p","a","n">>
      [] key = <<"H","a","s","L","a","b","e","l">> -> <<"l","a","b","e","l">>
      [] key = <<"M","i","n","L","a","t","e","n","c","y">> -> <<"l","a","t","e","n","c","y">>
      [] key = <<"U","R","L">> -> <<"u","r","l">>
      [] key = <<"M","e","t","h","o","d">> -> <<"m","e","t","h","o","d">>
      [] key = <<"V","e","r","s","i","o","n">> -> gaeServiceVersionKey
      [] key = <<"S","e","r","v","i","c","e">> -> gaeServiceKey
      [] key = <<"S","t","a","t","u","s">> -> <<"/","h","t","t","p","/","s","t","a","t","u","s","_","c","o","d","e">>
      [] OTHER -> key

\* the move of special characters keeping the order they are written in
moveSpecialChars_keepOrder(key, value) ==
    IF Len(value) < 2 THEN [key |-> key, value |-> value, err |-> NoErr]
    ELSE LET firstChar == value[1]
             secondChar == value[2]
         IN  IF (secondChar = "^" /\ firstChar = "+") \/ (secondChar = "+" /\ firstChar = "^")
             THEN [key |-> <<firstChar, secondChar>> \o key,
                   value |-> SubSeq(value, 3, Len(value)), err |-> NoErr]
             ELSE IF firstChar = "+" \/ firstChar = "^"
             THEN [key |-> <<firstChar>> \o key,
                   value |-> SubSeq(value, 2, Len(value)), err |-> NoErr]
             ELSE [key |-> key, value |-> value, err |-> NoErr]

\* the move of leading special characters from the value to the key
moveSpecialChars(key, value) ==
    IF Len(value) < 2 THEN [key |-> key, value |-> value, err |-> NoErr]
    ELSE LET firstChar == value[1]
             secondChar == value[2]
         IN  IF (secondChar = "^" /\ firstChar = "+") \/ (secondChar = "+" /\ firstChar = "^")
             THEN [key |-> <<"+", "^">> \o key,
                   value |-> SubSeq(value, 3, Len(value)), err |-> NoErr]
             ELSE IF firstChar = "+" \/ firstChar = "^"
             THEN [key |-> <<firstChar>> \o key,
                   value |-> SubSeq(value, 2, Len(value)), err |-> NoErr]
             ELSE [key |-> key, value |-> value, err |-> NoErr]

\* getFilterKeyValue with the first message starting with a capital letter
getFilterKeyValue_capital(qTFilter) ==
    LET qTFilterParts == SplitN2(qTFilter, Colon)
    IN  IF Len(qTFilterParts) # 2
        THEN [key |-> <<>>, value |-> <<>>,
              err |-> <<"B">> \o Tail(ErrKeyValue(qTFilter))]
        ELSE LET key == qTFilterParts[1]
                 value == qTFilterParts[2]
             IN  IF ToLower(key) = <<"l","a","b","e","l">>
                 THEN LET labelParts == SplitN2(value, Colon)
                      IN  IF Len(labelParts) # 2
                          THEN [key |-> <<>>, value |-> <<>>,
                                err |-> ErrLabelKeyValue(qTFilter)]
                          ELSE moveSpecialChars(convertKey(labelParts[1]), labelParts[2])
                 ELSE moveSpecialChars(convertKey(key), value)

\* getFilterKeyValue recognising the LABEL key in upper case only
getFilterKeyValue_caseSensitive(qTFilter) ==
    LET qTFilterParts == SplitN2(qTFilter, Colon)
    IN  IF Len(qTFilterParts) # 2
        THEN [key |-> <<>>, value |-> <<>>, err |-> ErrKeyValue(qTFilter)]
        ELSE LET key == qTFilterParts[1]
                 value == qTFilterParts[2]
             IN  IF key = <<"L","A","B","E","L">>
                 THEN LET labelParts == SplitN2(value, Colon)
                      IN  IF Len(labelParts) # 2
                          THEN [key |-> <<>>, value |-> <<>>,
                                err |-> ErrLabelKeyValue(qTFilter)]
                          ELSE moveSpecialChars(convertKey(labelParts[1]), labelParts[2])
                 ELSE moveSpecialChars(convertKey(key), value)

\* getFilterKeyValue reporting only the value part of a bad LABEL filter
getFilterKeyValue_valueInMessage(qTFilter) ==
    LET qTFilterParts == SplitN2(qTFilter, Colon)
    IN  IF Len(qTFilterParts) # 2
        THEN [key |-> <<>>, value |-> <<>>, err |-> ErrKeyValue(qTFilter)]
        ELSE LET key == qTFilterParts[1]
                 value == qTFilterParts[2]
             IN  IF ToLower(key) = <<"l","a","b","e","l">>
                 THEN LET labelParts == SplitN2(value, Colon)
                      IN  IF Len(labelParts) # 2
                          THEN [key |-> <<>>, value |-> <<>>,
                                err |-> ErrLabelKeyValue(value)]
                          ELSE moveSpecialChars(convertKey(labelParts[1]), labelParts[2])
                 ELSE moveSpecialChars(convertKey(key), value)

\* the filter part is split at the first ":"; a LABEL key makes the value
\* split once more; then the key is converted and special characters moved
getFilterKeyValue(qTFilter) ==
    LET qTFilterParts == SplitN2(qTFilter, Colon)
    IN  IF Len(qTFilterParts) # 2
        THEN [key |-> <<>>, value |-> <<>>, err |-> ErrKeyValue(qTFilter)]
        ELSE LET key == qTFilterParts[1]
                 value == qTFilterParts[2]
             IN  IF ToLower(key) = <<"l","a","b","e","l">>
                 THEN LET labelParts == SplitN2(value, Colon)
                      IN  IF Len(labelParts) # 2
                          THEN [key |-> <<>>, value |-> <<>>,
                                err |-> ErrLabelKeyValue(qTFilter)]
                          ELSE moveSpecialChars(convertKey(labelParts[1]), labelParts[2])
                 ELSE moveSpecialChars(convertKey(key), value)

\* the loop over the filter parts dropping a part it has already emitted
RECURSIVE filterLoop_dedup(_, _)
filterLoop_dedup(qTFilters, filters) ==
    IF qTFilters = <<>>
    THEN [filter |-> Join(filters, <<Space>>), err |-> NoErr]
    ELSE LET r == getFilterKeyValue(Head(qTFilters))
             item == r.key \o <<Colon>> \o r.value
         IN  IF r.err # NoErr
             THEN [filter |-> <<>>, err |-> r.err]
             ELSE filterLoop_dedup(Tail(qTFilters),
                                   IF \E n \in DOMAIN filters : filters[n] = item
                                   THEN filters ELSE Append(filters, item))

\* the loop over the filter parts writing each part as key=value
RECURSIVE filterLoop_equals(_, _)
filterLoop_equals(qTFilters, filters) ==
    IF qTFilters = <<>>
    THEN [filter |-> Join(filters, <<Space>>), err |-> NoErr]
    ELSE LET r == getFilterKeyValue(Head(qTFilters))
         IN  IF r.err # NoErr
             THEN [filter |-> <<>>, err |-> r.err]
             ELSE filterLoop_equals(Tail(qTFilters),
                                    Append(filters, r.key \o <<"=">> \o r.value))

\* the loop over the filter parts: the first error ends the translation
RECURSIVE filterLoop(_, _)
filterLoop(qTFilters, filters) ==
    IF qTFilters = <<>>
    THEN [filter |-> Join(filters, <<Space>>), err |-> NoErr]
    ELSE LET r == getFilterKeyValue(Head(qTFilters))
         IN  IF r.err # NoErr
             THEN [filter |-> <<>>, err |-> r.err]
             ELSE filterLoop(Tail(qTFilters),
                             Append(filters, r.key \o <<Colon>> \o r.value))

\* GetListTracesFilter returning, on an error, the parts translated so far
RECURSIVE filterLoop_partial(_, _)
filterLoop_partial(qTFilters, filters) ==
    IF qTFilters = <<>>
    THEN [filter |-> Join(filters, <<Space>>), err |-> NoErr]
    ELSE LET r == getFilterKeyValue(Head(qTFilters))
         IN  IF r.err # NoErr
             THEN [filter |-> Join(filters, <<Space>>), err |-> r.err]
             ELSE filterLoop_partial(Tail(qTFilters),
                                     Append(filters, r.key \o <<Colon>> \o r.value))

GetListTracesFilter_partial(text) == filterLoop_partial(FindAllString(text), <<>>)

GetListTracesFilter(text) == filterLoop(FindAllString(text), <<>>)

\* the pieces a query text is put together from
Pieces ==
    { <<"L","A","B","E","L",":">>,
      <<"L","a","B","e","L",":">>,
      <<"R","o","o","t","S","p","a","n",":">>,
      <<"k",":">>,
      <<"v">>,
      <<"+">>,
      <<"^">>,
      <<Colon>>,
      <<Space>>,
      <<Quote>> }

RECURSIVE Flatten(_)
Flatten(ps) == IF ps = <<>> THEN <<>> ELSE Head(ps) \o Flatten(Tail(ps))

QueryTexts(n) == {Flatten(ps) : ps \in SeqsUpTo(Pieces, n)}

NoFilterRet == [filter |-> <<>>, err |-> NoErr]

InitFilterVars ==
    /\ queryText \in QueryTexts(MaxPieces)
    /\ filterRet = NoFilterRet
    /\ gfpc = "start"

IdleFilterVars ==
    /\ queryText = <<>>
    /\ filterRet = NoFilterRet
    /\ gfpc = "idle"

GetListTracesFilterCall ==
    /\ gfpc = "start"
    /\ filterRet' = GetListTracesFilter(queryText)
    /\ gfpc' = "done"
    /\ UNCHANGED queryText
    /\ UNCHANGED <<listVars, tableVars, projVars, connVars, spanVars, laterVars>>

\* single tokens: an optional LABEL prefix, a key and a value
TokenPrefixes ==
    { <<>>, <<"L","A","B","E","L",":">>, <<"l","a","b","e","l",":">> }

FriendlyKeys ==
    { <<"R","o","o","t","S","p","a","n">>, <<"S","p","a","n","N","a","m","e">>,
      <<"H","a","s","L","a","b","e","l">>, <<"M","i","n","L","a","t","e","n","c","y">>,
      <<"U","R","L">>, <<"M","e","t","h","o","d">>, <<"V","e","r","s","i","o","n">>,
      <<"S","e","r","v","i","c","e">>, <<"S","t","a","t","u","s">> }

TokenKeys ==
    FriendlyKeys \cup
    { <<"r","o","o","t","s","p","a","n">>, <<"S","T","A","T","U","S">>,
      <<"k","e","y","1">>, <<>> }

TokenValues ==
    { <<>>, <<"v">>, <<"v",":","w">>, <<"v","+">>,
      <<"+">>, <<"^">>, <<"+","v">>, <<"^","v">>,
      <<"+","^">>, <<"^","+">>, <<"+","^","v">>, <<"^","+","v">>,
      <<"+","+","v">>, <<"^","^","v">>,
      <<Quote,"a",Space,"b",Quote>>, <<Quote,"a",Backslash,Quote,Space,"b",Quote>> }

\* what may follow the token: nothing, or white space and one more token
TokenTails ==
    { <<>>,
      <<Space,"k","e","y","1",":","v">>,
      <<Space,Space,"U","R","L",":",Quote,"a",Space,"b",Quote>> }

TokenTexts ==
    {p \o k \o <<Colon>> \o v \o t :
        p \in TokenPrefixes, k \in TokenKeys, v \in TokenValues, t \in TokenTails}

InitTokenVars ==
    /\ queryText \in TokenTexts
    /\ filterRet = NoFilterRet
    /\ gfpc = "start"

(***************************************************************************)
(* Client.ListProjects                                                     *)
(***************************************************************************)
ProjectIds == {"p1", "p2"}
LifecycleStates ==
    {"ACTIVE", "DELETE_REQUESTED", "DELETE_IN_PROGRESS", "LIFECYCLE_STATE_UNSPECIFIED"}
Projects == [ProjectId : ProjectIds, LifecycleState : LifecycleStates]
ListErrs == {"rpc error", "permission denied"}

\* what rClient.List().Do() may answer: a list of projects, or an error
ListResponses(n) ==
    {[err |-> NilErr, Projects |-> ps] : ps \in SeqsUpTo(Projects, n)}
        \cup {[err |-> e, Projects |-> <<>>] : e \in ListErrs}

\* the loop over response.Projects
RECURSIVE projectsLoop(_, _)
projectsLoop(ps, projectIDs) ==
    IF ps = <<>> THEN projectIDs
    ELSE LET p == Head(ps)
         IN  IF p.LifecycleState = "DELETE_REQUESTED" \/ p.LifecycleState = "DELETE_IN_PROGRESS"
             THEN projectsLoop(Tail(ps), projectIDs)
             ELSE projectsLoop(Tail(ps), Append(projectIDs, p.ProjectId))

\* the loop skipping only the projects whose deletion was requested
RECURSIVE projectsLoop_requestedOnly(_, _)
projectsLoop_requestedOnly(ps, projectIDs) ==
    IF ps = <<>> THEN projectIDs
    ELSE LET p == Head(ps)
         IN  IF p.LifecycleState = "DELETE_REQUESTED"
             THEN projectsLoop_requestedOnly(Tail(ps), projectIDs)
             ELSE projectsLoop_requestedOnly(Tail(ps), Append(projectIDs, p.ProjectId))

ListProjects_requestedOnly(response) ==
    IF response.err # NilErr
    THEN [projectIDs |-> <<>>, isNil |-> TRUE, err |-> response.err]
    ELSE [projectIDs |-> projectsLoop_requestedOnly(response.Projects, <<>>),
          isNil |-> FALSE, err |-> NilErr]

\* a failed remote call returns the nil list and the error; else the IDs of
\* the projects not being deleted and no error
ListProjects(response) ==
    IF response.err # NilErr
    THEN [projectIDs |-> <<>>, isNil |-> TRUE, err |-> response.err]
    ELSE [projectIDs |-> projectsLoop(response.Projects, <<>>),
          isNil |-> FALSE, err |-> NilErr]

NoProjRet == [projectIDs |-> <<>>, isNil |-> TRUE, err |-> NilErr]

InitProjVars ==
    /\ projResp \in ListResponses(MaxProjects)
    /\ projRet = NoProjRet
    /\ lppc = "start"

IdleProjVars ==
    /\ projResp = [err |-> NilErr, Projects |-> <<>>]
    /\ projRet = NoProjRet
    /\ lppc = "idle"

ListProjectsCall ==
    /\ lppc = "start"
    /\ projRet' = ListProjects(projResp)
    /\ lppc' = "done"
    /\ UNCHANGED projResp
    /\ UNCHANGED <<listVars, tableVars, filterVars, connVars, spanVars, laterVars>>

(***************************************************************************)
(* Client.TestConnection                                                   *)
(***************************************************************************)
IteratorDone == "no more items in iterator"
DeadlineExceeded == "context deadline exceeded"
Canceled == "context canceled"

\* listCtx.Err(): nil while the context is live
CtxErrs == {NilErr, DeadlineExceeded, Canceled}

\* the errors it.Next() may return
NextErrs == {NilErr, IteratorDone, DeadlineExceeded, Canceled} \cup ListErrs

NextResults == [entry : {"trace", "nil"}, err : NextErrs]

DefaultProjects == {"", "p1"}

\* the error values TestConnection builds: a text, or a prefix and its cause
NilError == <<>>
ErrTimeout == <<"timeout">>
ErrNoEntries == <<"no entries">>
ErrListEntriesTimeout == <<"list entries: ", "timeout">>
ErrListEntries(cause) == <<"list entries: ", cause>>

\* the checks after it.Next() leaving a nil entry unchecked
afterNext_noNilCheck(next) ==
    IF next.err = IteratorDone THEN ErrNoEntries
    ELSE IF next.err = DeadlineExceeded THEN ErrListEntriesTimeout
    ELSE IF next.err # NilErr THEN ErrListEntries(next.err)
    ELSE NilError

\* the checks after entry, err := it.Next(), in the order of the code
afterNext(next) ==
    IF next.err = IteratorDone THEN ErrNoEntries
    ELSE IF next.err = DeadlineExceeded THEN ErrListEntriesTimeout
    ELSE IF next.err # NilErr THEN ErrListEntries(next.err)
    ELSE IF next.entry = "nil" THEN ErrNoEntries
    ELSE NilError

InitConnVars ==
    /\ tcProject \in DefaultProjects
    /\ tcCtxErr \in CtxErrs
    /\ tcNext \in NextResults
    /\ tcRet = NilError
    /\ tcpc = "start"

IdleConnVars ==
    /\ tcProject = ""
    /\ tcCtxErr = NilErr
    /\ tcNext = [entry |-> "nil", err |-> IteratorDone]
    /\ tcRet = NilError
    /\ tcpc = "idle"

\* the iterator is created under listCtx; a context that is already done
\* ends the call before any fetch
TestConnectionStart ==
    /\ tcpc = "start"
    /\ IF tcCtxErr # NilErr
       THEN tcRet' = ErrTimeout /\ tcpc' = "done"
       ELSE tcRet' = tcRet /\ tcpc' = "fetch"
    /\ UNCHANGED <<tcProject, tcCtxErr, tcNext>>
    /\ UNCHANGED <<listVars, tableVars, filterVars, projVars, spanVars, laterVars>>

\* the one it.Next() and the checks on what it yields
TestConnectionNext ==
    /\ tcpc = "fetch"
    /\ tcRet' = afterNext(tcNext)
    /\ tcpc' = "done"
    /\ UNCHANGED <<tcProject, tcCtxErr, tcNext>>
    /\ UNCHANGED <<listVars, tableVars, filterVars, projVars, spanVars, laterVars>>

TestConnection ==
    \/ TestConnectionStart
    \/ TestConnectionNext

(***************************************************************************)
(* The span names of createTraceSpanFrame                                  *)
(***************************************************************************)
LabelKeys == {otelServiceKey, gaeServiceKey, otelMethodKey, cloudTraceMethodKey}

\* a value of its own for each label key
LabelValue(k) ==
    CASE k = otelServiceKey -> ValSvc
      [] k = gaeServiceKey -> <<"m","o","d">>
      [] k = otelMethodKey -> ValGET
      [] k = cloudTraceMethodKey -> <<"P","U","T">>

\* each key absent, present and empty, or present with its value
LabelMaps ==
    {[k \in {x \in LabelKeys : f[x] # "absent"} |->
          IF f[k] = "empty" THEN <<>> ELSE LabelValue(k)] :
        f \in [LabelKeys -> {"absent", "empty", "value"}]}

NamedSpans == [Name : {<<>>, NameSp}, Labels : LabelMaps]

NoSpanOut == [operationName |-> <<>>, serviceName |-> <<>>, httpMethod |-> <<>>]

InitSpanVars ==
    /\ spanIn \in NamedSpans
    /\ spanOut = NoSpanOut
    /\ sppc = "start"

IdleSpanVars ==
    /\ spanIn = [Name |-> <<>>, Labels |-> NoLabels]
    /\ spanOut = NoSpanOut
    /\ sppc = "idle"

\* the names createTraceSpanFrame gives a span
SpanNames ==
    /\ sppc = "start"
    /\ spanOut' = [operationName |-> GetSpanOperationName(spanIn),
                   serviceName |-> GetServiceName(spanIn),
                   httpMethod |-> getHTTPMethod(spanIn)]
    /\ sppc' = "done"
    /\ UNCHANGED spanIn
    /\ UNCHANGED <<listVars, tableVars, filterVars, projVars, connVars, laterVars>>

(***************************************************************************)
(* GetTags                                                                 *)
(***************************************************************************)
servicePrefix == <<"s","e","r","v","i","c","e",".">>
gaeServicePrefix == <<"g",".","c","o","/","g","a","e","/","a","p","p","/">>

\* the text json.Marshal writes for one character of a string; the HTML
\* characters are written as \u escapes
jsonChar(c) ==
    CASE c = Quote -> <<Backslash, Quote>>
      [] c = Backslash -> <<Backslash, Backslash>>
      [] c = "<" -> <<Backslash, "u", "0", "0", "3", "c">>
      [] c = ">" -> <<Backslash, "u", "0", "0", "3", "e">>
      [] c = "&" -> <<Backslash, "u", "0", "0", "2", "6">>
      [] OTHER -> <<c>>

\* json.Marshal of a string
RECURSIVE jsonEscape(_)
jsonEscape(str) == IF str = <<>> THEN <<>> ELSE jsonChar(Head(str)) \o jsonEscape(Tail(str))

jsonString(str) == <<Quote>> \o jsonEscape(str) \o <<Quote>>

\* json.Marshal of map[string]string{"key": key, "value": value}: the keys of
\* a map are written in sorted order
jsonTag(tag) ==
    <<"{">> \o jsonString(<<"k","e","y">>) \o <<":">> \o jsonString(tag.key) \o <<",">>
        \o jsonString(<<"v","a","l","u","e">>) \o <<":">> \o jsonString(tag.value) \o <<"}">>

\* json.Marshal of a []map[string]string that is not nil: [] when empty
jsonTags(tags) ==
    <<"[">> \o Join([n \in DOMAIN tags |-> jsonTag(tags[n])], <<",">>) \o <<"]">>

\* the loop over the labels in the order the map is ranged over
RECURSIVE tagsLoop(_, _, _, _)
tagsLoop(labels, order, serviceTagsMapArray, spanTagsMapArray) ==
    IF order = <<>>
    THEN [serviceTags |-> jsonTags(serviceTagsMapArray),
          spanTags |-> jsonTags(spanTagsMapArray), err |-> NilErr]
    ELSE LET key == Head(order)
             tag == [key |-> key, value |-> labels[key]]
         IN  IF HasPrefix(key, servicePrefix) \/ HasPrefix(key, gaeServicePrefix)
             THEN tagsLoop(labels, Tail(order), Append(serviceTagsMapArray, tag), spanTagsMapArray)
             ELSE tagsLoop(labels, Tail(order), serviceTagsMapArray, Append(spanTagsMapArray, tag))

\* GetTags taking only the service. prefix for a service tag
RECURSIVE tagsLoop_otelOnly(_, _, _, _)
tagsLoop_otelOnly(labels, order, serviceTagsMapArray, spanTagsMapArray) ==
    IF order = <<>>
    THEN [serviceTags |-> jsonTags(serviceTagsMapArray),
          spanTags |-> jsonTags(spanTagsMapArray), err |-> NilErr]
    ELSE LET key == Head(order)
             tag == [key |-> key, value |-> labels[key]]
         IN  IF HasPrefix(key, servicePrefix)
             THEN tagsLoop_otelOnly(labels, Tail(order), Append(serviceTagsMapArray, tag), spanTagsMapArray)
             ELSE tagsLoop_otelOnly(labels, Tail(order), serviceTagsMapArray, Append(spanTagsMapArray, tag))

GetTags_otelOnly(labels, order) == tagsLoop_otelOnly(labels, order, <<>>, <<>>)

\* GetTags of a span with these labels, the map ranged over in this order;
\* json.Marshal does not fail on a slice of string maps
GetTags(labels, order) == tagsLoop(labels, order, <<>>, <<>>)

\* the orders a Go map with these keys may be ranged over: every one
MapOrders(keys) ==
    {o \in [1..Cardinality(keys) -> keys] : \A a, b \in DOMAIN o : a # b => o[a] # o[b]}

TagKeys ==
    {otelServiceKey, gaeServiceKey, cloudTraceMethodKey, <<"s","e","r","v","i","c","e">>, <<"k">>}

TagValues == { <<"v">>, <<"<", Quote>> }

\* the label maps tried: every subset of the keys, each with either value
TagLabelMaps == UNION {[D -> TagValues] : D \in SUBSET TagKeys}

NoTagsOut == [serviceTags |-> <<>>, spanTags |-> <<>>, err |-> NilErr]

InitTagVars ==
    /\ tagLabels \in TagLabelMaps
    /\ tagsOut = NoTagsOut
    /\ tgpc = "start"

IdleTagVars ==
    /\ tagLabels = NoLabels
    /\ tagsOut = NoTagsOut
    /\ tgpc = "idle"

GetTagsCall ==
    /\ tgpc = "start"
    /\ \E order \in MapOrders(DOMAIN tagLabels) : tagsOut' = GetTags(tagLabels, order)
    /\ tgpc' = "done"
    /\ UNCHANGED tagLabels
    /\ UNCHANGED <<earlierVars, concVars, orchVars>>

(***************************************************************************)
(* Client.ListTraces invoked concurrently on one client                    *)
(***************************************************************************)
Invocations == {"a", "b"}

ConcLimits == {0, 1, 2}

ConcScripts(n) == SeqsUpTo({"t1", IterErr}, n)

\* the loop of ListTraces run from a position of the iterator to its end
RECURSIVE listLoop(_, _, _, _, _)
listLoop(limit, scr, pos, count, acc) ==
    IF pos > Len(scr) THEN [entries |-> acc, err |-> NilErr]
    ELSE IF scr[pos] = IterErr THEN [entries |-> acc, err |-> NilErr]
    ELSE IF count + 1 >= limit THEN [entries |-> Append(acc, scr[pos]), err |-> NilErr]
    ELSE listLoop(limit, scr, pos + 1, count + 1, Append(acc, scr[pos]))

\* what one ListTraces call returns for a query and an iterator behaviour
ListTracesAlone(query, scr) == listLoop(query.Limit, scr, 1, 0, <<>>)

InitConcVars ==
    /\ cq \in [Invocations -> [Limit : ConcLimits]]
    /\ cscript \in [Invocations -> ConcScripts(MaxConcRemote)]
    /\ cpageSize = [p \in Invocations |-> 0]
    /\ ci = [p \in Invocations |-> 0]
    /\ centries = [p \in Invocations |-> <<>>]
    /\ cfetches = [p \in Invocations |-> 0]
    /\ cpc = [p \in Invocations |-> "start"]
    /\ cret = [p \in Invocations |-> [entries |-> <<>>, err |-> NilErr]]

IdleConcVars ==
    /\ cq = [p \in Invocations |-> [Limit |-> 1]]
    /\ cscript = [p \in Invocations |-> <<>>]
    /\ cpageSize = [p \in Invocations |-> 0]
    /\ ci = [p \in Invocations |-> 0]
    /\ centries = [p \in Invocations |-> <<>>]
    /\ cfetches = [p \in Invocations |-> 0]
    /\ cpc = [p \in Invocations |-> "idle"]
    /\ cret = [p \in Invocations |-> [entries |-> <<>>, err |-> NilErr]]

\* the outcome of invocation p's next it.Next()
ConcOutcome(p) ==
    IF cfetches[p] < Len(cscript[p]) THEN cscript[p][cfetches[p] + 1] ELSE "done"

\* invocation p builds its request and opens its own iterator
ConcStart(p) ==
    /\ cpc[p] = "start"
    /\ cpageSize' = [cpageSize EXCEPT ![p] = PageSize(cq[p].Limit)]
    /\ ci' = [ci EXCEPT ![p] = 0]
    /\ centries' = [centries EXCEPT ![p] = <<>>]
    /\ cpc' = [cpc EXCEPT ![p] = "loop"]
    /\ UNCHANGED <<cq, cscript, cfetches, cret>>
    /\ UNCHANGED <<earlierVars, tagVars, orchVars>>

\* the step of invocation p counting in one counter kept by the client
ConcNextEntry_sharedCounter(p) ==
    /\ cpc[p] = "loop"
    /\ cfetches[p] < Len(cscript[p])
    /\ ConcOutcome(p) # IterErr
    /\ cfetches' = [cfetches EXCEPT ![p] = @ + 1]
    /\ centries' = [centries EXCEPT ![p] = Append(@, ConcOutcome(p))]
    /\ ci' = [x \in Invocations |-> ci[p] + 1]
    /\ IF ci'[p] >= cq[p].Limit
       THEN /\ cpc' = [cpc EXCEPT ![p] = "done"]
            /\ cret' = [cret EXCEPT ![p] = [entries |-> centries'[p], err |-> NilErr]]
       ELSE /\ cpc' = cpc
            /\ cret' = cret
    /\ UNCHANGED <<cq, cscript, cpageSize>>
    /\ UNCHANGED <<earlierVars, tagVars, orchVars>>

\* invocation p's it.Next() yields a trace: append, count, stop at the limit
ConcNextEntry(p) ==
    /\ cpc[p] = "loop"
    /\ cfetches[p] < Len(cscript[p])
    /\ ConcOutcome(p) # IterErr
    /\ cfetches' = [cfetches EXCEPT ![p] = @ + 1]
    /\ centries' = [centries EXCEPT ![p] = Append(@, ConcOutcome(p))]
    /\ ci' = [ci EXCEPT ![p] = @ + 1]
    /\ IF ci'[p] >= cq[p].Limit
       THEN /\ cpc' = [cpc EXCEPT ![p] = "done"]
            /\ cret' = [cret EXCEPT ![p] = [entries |-> centries'[p], err |-> NilErr]]
       ELSE /\ cpc' = cpc
            /\ cret' = cret
    /\ UNCHANGED <<cq, cscript, cpageSize>>
    /\ UNCHANGED <<earlierVars, tagVars, orchVars>>

\* invocation p's it.Next() yields iterator.Done
ConcNextDone(p) ==
    /\ cpc[p] = "loop"
    /\ cfetches[p] >= Len(cscript[p])
    /\ cfetches' = [cfetches EXCEPT ![p] = @ + 1]
    /\ cpc' = [cpc EXCEPT ![p] = "done"]
    /\ cret' = [cret EXCEPT ![p] = [entries |-> centries[p], err |-> NilErr]]
    /\ UNCHANGED <<cq, cscript, cpageSize, ci, centries>>
    /\ UNCHANGED <<earlierVars, tagVars, orchVars>>

\* invocation p's it.Next() yields an error: logged, the loop breaks
ConcNextErr(p) ==
    /\ cpc[p] = "loop"
    /\ cfetches[p] < Len(cscript[p])
    /\ ConcOutcome(p) = IterErr
    /\ cfetches' = [cfetches EXCEPT ![p] = @ + 1]
    /\ cpc' = [cpc EXCEPT ![p] = "done"]
    /\ cret' = [cret EXCEPT ![p] = [entries |-> centries[p], err |-> NilErr]]
    /\ UNCHANGED <<cq, cscript, cpageSize, ci, centries>>
    /\ UNCHANGED <<earlierVars, tagVars, orchVars>>

(***************************************************************************)
(* QueryData and query: the dispatch of each query of a request            *)
(***************************************************************************)
MaxQueries == 2

\* the JSON of a query: text that does not parse, or an object, field name
\* to value; a value keeps its JSON type and its text
JStr(t) == [type |-> "string", text |-> t]
JNum(t) == [type |-> "number", text |-> t]
NoFields == [k \in {} |-> JStr(<<>>)]
NotJSON == [valid |-> FALSE, fields |-> NoFields]
JObject(f) == [valid |-> TRUE, fields |-> f]

ErrSyntax == <<"i","n","v","a","l","i","d"," ","c","h","a","r","a","c","t","e","r"," ","'","N","'"," ","l","o","o","k","i","n","g"," ","f","o","r"," ","b","e","g","i","n","n","i","n","g"," ","o","f"," ","v","a","l","u","e">>
ErrUnmarshalType == <<"j","s","o","n",":"," ","c","a","n","n","o","t"," ","u","n","m","a","r","s","h","a","l"," ","n","u","m","b","e","r"," ","i","n","t","o"," ","G","o"," ","s","t","r","u","c","t"," ","f","i","e","l","d">>

\* the string fields of queryModel, by their json tags
queryModelTags == {"traceId", "queryText", "queryType", "projectId"}

stringField(doc, name) ==
    IF name \in DOMAIN doc.fields /\ doc.fields[name].type = "string"
    THEN doc.fields[name].text
    ELSE <<>>

\* json.Unmarshal(query.JSON, &q): a field that is absent stays empty; a
\* value of the wrong type leaves its field empty and is reported at the end
Unmarshal(doc) ==
    [q |-> [TraceID |-> stringField(doc, "traceId"),
            QueryText |-> stringField(doc, "queryText"),
            QueryType |-> stringField(doc, "queryType"),
            ProjectID |-> stringField(doc, "projectId")],
     err |-> IF ~doc.valid THEN ErrSyntax
             ELSE IF \E n \in DOMAIN doc.fields \cap queryModelTags :
                         doc.fields[n].type # "string"
                  THEN ErrUnmarshalType
                  ELSE NoErr]

\* strings.TrimSpace, over the white space the texts of the model hold
TrimSpace(s) ==
    IF \A n \in DOMAIN s : IsSpace(s[n]) THEN <<>>
    ELSE LET a == CHOOSE n \in DOMAIN s :
                      ~IsSpace(s[n]) /\ \A m \in 1..(n - 1) : IsSpace(s[m])
             b == CHOOSE n \in DOMAIN s :
                      ~IsSpace(s[n]) /\ \A m \in (n + 1)..Len(s) : IsSpace(s[m])
         IN  SubSeq(s, a, b)

\* strconv.FormatUint(n, 10)
Digits == <<"0","1","2","3","4","5","6","7","8","9">>
RECURSIVE FormatUint(_)
FormatUint(n) ==
    IF n < 10 THEN <<Digits[n + 1]>>
    ELSE FormatUint(n \div 10) \o <<Digits[(n % 10) + 1]>>

\* ---- the remote service behind d.client, as the API interface shows it ----
TraceIdT1 == <<"t","1">>
ProjectP1 == <<"p","1">>
ErrRpc == <<"r","p","c"," ","e","r","r","o","r",":"," ","c","o","d","e"," ","="," ","U","n","a","v","a","i","l","a","b","l","e">>
ErrNotFound == <<"r","p","c"," ","e","r","r","o","r",":"," ","c","o","d","e"," ","="," ","N","o","t","F","o","u","n","d">>

DetailSpanRoot ==
    [SpanId |-> 1, ParentSpanId |-> 0, Name |-> NameSp,
     Labels |-> (otelServiceKey :> ValSvc @@ cloudTraceMethodKey :> ValGET),
     StartTime |-> 900, EndTime |-> 1100]
DetailSpanChild ==
    [SpanId |-> 20, ParentSpanId |-> 1, Name |-> <<>>, Labels |-> NoLabels,
     StartTime |-> 1000, EndTime |-> 2500]

\* the trace stored under TraceIdT1: without spans, or a root and its child
DetailTraces ==
    { [TraceId |-> TraceIdT1, Spans |-> <<>>],
      [TraceId |-> TraceIdT1, Spans |-> <<DetailSpanRoot, DetailSpanChild>>] }

TableSpanA ==
    [Name |-> NameSp, Labels |-> (cloudTraceMethodKey :> ValGET),
     StartTime |-> 900, EndTime |-> 1100]
TableSpanB ==
    [Name |-> <<>>, Labels |-> (otelServiceKey :> ValSvc @@ otelMethodKey :> ValGET),
     StartTime |-> 1500, EndTime |-> 2500]

\* what a listing yields: nothing, one trace, or a trace without spans and
\* a trace with its root span
ListBatches ==
    { <<>>,
      <<[TraceId |-> "t1", Spans |-> <<TableSpanA>>]>>,
      <<[TraceId |-> "t1", Spans |-> <<>>], [TraceId |-> "t2", Spans |-> <<TableSpanB>>]>> }

\* the states of the remote service: each of the two calls fails, or answers
\* with what the service holds
RemoteStates ==
    {r \in [getTraceErr : BOOLEAN, trace : DetailTraces,
            listErr : BOOLEAN, batch : ListBatches] :
        /\ r.getTraceErr => r.trace.Spans = <<>>
        /\ r.listErr => r.batch = <<>>}

\* d.client.GetTrace: the error of the remote call, else the stored trace
ClientGetTrace(rem, clientRequest) ==
    IF rem.getTraceErr THEN [trace |-> <<>>, err |-> ErrRpc]
    ELSE IF clientRequest.TraceID # rem.trace.TraceId
    THEN [trace |-> <<>>, err |-> ErrNotFound]
    ELSE [trace |-> <<rem.trace>>, err |-> NoErr]

\* d.client.ListTraces, as the API interface allows: traces, or an error
ClientListTraces(rem, clientRequest) ==
    IF rem.listErr THEN [traces |-> <<>>, err |-> ErrRpc]
    ELSE [traces |-> rem.batch, err |-> NoErr]

\* ---- the frames ----
DetailColumns ==
    {"traceID", "parentSpanID", "spanID", "serviceName", "operationName",
     "serviceTags", "tags", "startTime", "duration"}

EmptyDetailFields == [c \in DetailColumns |-> <<>>]

\* one pass of the loop over trace.Spans; order is the order in which the
\* labels of the span are ranged over.  The duration is kept in thousandths
\* of a millisecond, the float64 being that number divided by 1000.
spanAppend(f, traceId, s, order) ==
    LET t == GetTags(s.Labels, order)
    IN  IF t.err # NilErr THEN f
        ELSE [f EXCEPT !["tags"] = Append(@, t.spanTags),
                       !["serviceTags"] = Append(@, t.serviceTags),
                       !["traceID"] = Append(@, traceId),
                       !["spanID"] = Append(@, FormatUint(s.SpanId)),
                       !["parentSpanID"] = Append(@, FormatUint(s.ParentSpanId)),
                       !["operationName"] = Append(@, GetSpanOperationName(s)),
                       !["serviceName"] = Append(@, GetServiceName(s)),
                       !["startTime"] = Append(@, s.StartTime),
                       !["duration"] = Append(@, s.EndTime - s.StartTime)]

RECURSIVE spanLoop(_, _, _, _)
spanLoop(f, traceId, spans, orders) ==
    IF spans = <<>> THEN f
    ELSE spanLoop(spanAppend(f, traceId, Head(spans), Head(orders)),
                  traceId, Tail(spans), Tail(orders))

createTraceSpanFrame(trace, orders) ==
    [Name |-> trace.TraceId, PreferredVisualization |-> "trace",
     Fields |-> spanLoop(EmptyDetailFields, trace.TraceId, trace.Spans, orders)]

\* the frame of createTracesTableFrame with its name and its meta
tracesTableFrame(ts) ==
    [Name |-> <<"t","r","a","c","e","T","a","b","l","e">>, PreferredVisualization |-> "table",
     Fields |-> createTracesTableFrame(ts)]

\* the orders in which the labels of each span of a trace may be ranged over
SpanOrders(trace) ==
    {o \in [1..Len(trace.Spans) -> UNION {MapOrders(DOMAIN trace.Spans[n].Labels) :
                                             n \in 1..Len(trace.Spans)}] :
        \A n \in 1..Len(trace.Spans) : o[n] \in MapOrders(DOMAIN trace.Spans[n].Labels)}

\* ---- the calls made on d.client and on the translator, as a log ----
LogGetTrace(refID, clientRequest) ==
    [op |-> "GetTrace", RefID |-> refID, ProjectID |-> clientRequest.ProjectID,
     TraceID |-> clientRequest.TraceID, Filter |-> <<>>, Limit |-> 0, From |-> 0, To |-> 0]
LogListTraces(refID, clientRequest) ==
    [op |-> "ListTraces", RefID |-> refID, ProjectID |-> clientRequest.ProjectID,
     TraceID |-> <<>>, Filter |-> clientRequest.Filter, Limit |-> clientRequest.Limit,
     From |-> clientRequest.TimeRange.From, To |-> clientRequest.TimeRange.To]
LogTranslate(refID, text) ==
    [op |-> "GetListTracesFilter", RefID |-> refID, ProjectID |-> <<>>,
     TraceID |-> <<>>, Filter |-> text, Limit |-> 0, From |-> 0, To |-> 0]

RemoteOps == {"GetTrace", "ListTraces"}

\* ---- the handlers ----
getTraceSpanFrame(rem, orders, refID, qm) ==
    LET clientRequest == [ProjectID |-> qm.ProjectID, TraceID |-> qm.TraceID]
        r == ClientGetTrace(rem, clientRequest)
        log == <<LogGetTrace(refID, clientRequest)>>
    IN  IF r.err # NoErr THEN [f |-> <<>>, err |-> r.err, calls |-> log]
        ELSE [f |-> <<createTraceSpanFrame(r.trace[1], orders)>>, err |-> NoErr,
              calls |-> log]

\* getTracesTableFrame issuing the remote call before it looks at the
\* outcome of the translation
getTracesTableFrame_callFirst(rem, qm, dQuery) ==
    LET t == GetListTracesFilter(qm.QueryText)
        clientRequest == [ProjectID |-> qm.ProjectID, Filter |-> t.filter,
                          Limit |-> dQuery.MaxDataPoints,
                          TimeRange |-> [From |-> dQuery.TimeRange.From,
                                         To |-> dQuery.TimeRange.To]]
        r == ClientListTraces(rem, clientRequest)
        log == <<LogTranslate(dQuery.RefID, qm.QueryText),
                 LogListTraces(dQuery.RefID, clientRequest)>>
    IN  IF t.err # NoErr THEN [f |-> <<>>, err |-> t.err, calls |-> log]
        ELSE IF r.err # NoErr THEN [f |-> <<>>, err |-> r.err, calls |-> log]
        ELSE [f |-> <<tracesTableFrame(r.traces)>>, err |-> NoErr, calls |-> log]

\* the filter is translated first and a failed translation returns at once;
\* Limit and TimeRange are copied from the query as they are
getTracesTableFrame(rem, qm, dQuery) ==
    LET t == GetListTracesFilter(qm.QueryText)
        clientRequest == [ProjectID |-> qm.ProjectID, Filter |-> t.filter,
                          Limit |-> dQuery.MaxDataPoints,
                          TimeRange |-> [From |-> dQuery.TimeRange.From,
                                         To |-> dQuery.TimeRange.To]]
        r == ClientListTraces(rem, clientRequest)
        translated == <<LogTranslate(dQuery.RefID, qm.QueryText)>>
        log == Append(translated, LogListTraces(dQuery.RefID, clientRequest))
    IN  IF t.err # NoErr THEN [f |-> <<>>, err |-> t.err, calls |-> translated]
        ELSE IF r.err # NoErr THEN [f |-> <<>>, err |-> r.err, calls |-> log]
        ELSE [f |-> <<tracesTableFrame(r.traces)>>, err |-> NoErr, calls |-> log]

ErrTraceQuery(err) == <<"t","r","a","c","e"," ","q","u","e","r","y",":"," ">> \o err
ErrFilterQuery(err) == <<"f","i","l","t","e","r"," ","q","u","e","r","y",":"," ">> \o err

QueryTypeTraceID == <<"t","r","a","c","e","I","D">>

\* query taking an id of white space for an id
query_noTrim(rem, orders, dQuery) ==
    LET u == Unmarshal(dQuery.JSON)
        qm == u.q
        isTrace == qm.QueryType = QueryTypeTraceID /\ qm.TraceID # <<>>
        g == getTraceSpanFrame(rem, orders, dQuery.RefID, qm)
        frames1 == IF isTrace THEN g.f ELSE <<>>
        calls1 == IF isTrace THEN g.calls ELSE <<>>
        isFilter == qm.QueryType = <<>>
        l == getTracesTableFrame(rem, qm, dQuery)
    IN  IF u.err # NoErr
        THEN [response |-> [Error |-> u.err, Frames |-> <<>>], calls |-> <<>>]
        ELSE IF isTrace /\ g.err # NoErr
        THEN [response |-> [Error |-> ErrTraceQuery(g.err), Frames |-> <<>>],
              calls |-> calls1]
        ELSE IF isFilter /\ l.err # NoErr
        THEN [response |-> [Error |-> ErrFilterQuery(l.err), Frames |-> frames1],
              calls |-> calls1 \o l.calls]
        ELSE IF isFilter
        THEN [response |-> [Error |-> NoErr, Frames |-> frames1 \o l.f],
              calls |-> calls1 \o l.calls]
        ELSE [response |-> [Error |-> NoErr, Frames |-> frames1], calls |-> calls1]

\* query: the two blocks of the code one after the other, each returning
\* at its error; the result holds the DataResponse and the calls made
query(rem, orders, dQuery) ==
    LET u == Unmarshal(dQuery.JSON)
        qm == u.q
        isTrace == qm.QueryType = QueryTypeTraceID /\ TrimSpace(qm.TraceID) # <<>>
        g == getTraceSpanFrame(rem, orders, dQuery.RefID, qm)
        frames1 == IF isTrace THEN g.f ELSE <<>>
        calls1 == IF isTrace THEN g.calls ELSE <<>>
        isFilter == qm.QueryType = <<>>
        l == getTracesTableFrame(rem, qm, dQuery)
    IN  IF u.err # NoErr
        THEN [response |-> [Error |-> u.err, Frames |-> <<>>], calls |-> <<>>]
        ELSE IF isTrace /\ g.err # NoErr
        THEN [response |-> [Error |-> ErrTraceQuery(g.err), Frames |-> <<>>],
              calls |-> calls1]
        ELSE IF isFilter /\ l.err # NoErr
        THEN [response |-> [Error |-> ErrFilterQuery(l.err), Frames |-> frames1],
              calls |-> calls1 \o l.calls]
        ELSE IF isFilter
        THEN [response |-> [Error |-> NoErr, Frames |-> frames1 \o l.f],
              calls |-> calls1 \o l.calls]
        ELSE [response |-> [Error |-> NoErr, Frames |-> frames1], calls |-> calls1]

\* ---- the requests tried ----
RefIDs == <<"A", "B", "C", "D">>

Obj1(k, v) == JObject(k :> v)
Obj2(k1, v1, k2, v2) == JObject(k1 :> v1 @@ k2 :> v2)

\* a filter query whose text translates
FilterDoc == Obj2("queryType", JStr(<<>>), "queryText", JStr(<<"k",":","v">>))

\* documents of the filter path: no field at all, a filter, a filter without
\* a colon, a label filter without a key
FilterDocs ==
    { JObject(NoFields),
      FilterDoc,
      Obj2("projectId", JStr(ProjectP1), "queryText", JStr(<<"v">>)),
      Obj1("queryText", JStr(<<"L","A","B","E","L",":","v">>)) }

\* documents of the other paths: text that is no JSON, the stored trace, a
\* blank id, an id with a leading blank (which the service does not hold),
\* no id, a query type in another case, an unknown one, a number for a
\* text, and a trace query that carries a bad filter text
OtherDocs ==
    { NotJSON,
      Obj2("queryType", JStr(QueryTypeTraceID), "traceId", JStr(TraceIdT1)),
      Obj2("queryType", JStr(QueryTypeTraceID), "traceId", JStr(<<" ">>)),
      Obj2("queryType", JStr(QueryTypeTraceID), "traceId", JStr(<<" ","t","1">>)),
      Obj1("queryType", JStr(QueryTypeTraceID)),
      Obj2("queryType", JStr(<<"t","r","a","c","e","i","d">>), "traceId", JStr(TraceIdT1)),
      Obj2("queryType", JStr(<<"t","a","b","l","e">>), "queryText", JStr(<<"k",":","v">>)),
      Obj1("queryType", JNum(<<"5">>)),
      JObject("queryType" :> JStr(QueryTypeTraceID) @@ "traceId" :> JStr(TraceIdT1)
                  @@ "queryText" :> JStr(<<"v">>)) }

\* MaxDataPoints and the time range as the caller sends them: the usual
\* case, no data points, and a range whose end precedes its start
QuerySettings ==
    { [MaxDataPoints |-> 2, TimeRange |-> [From |-> 1, To |-> 2]],
      [MaxDataPoints |-> 0, TimeRange |-> [From |-> 1, To |-> 2]],
      [MaxDataPoints |-> 2, TimeRange |-> [From |-> 2, To |-> 1]] }

UsualSettings == [MaxDataPoints |-> 2, TimeRange |-> [From |-> 1, To |-> 2]]

\* the filter that translates is tried with every setting, the other
\* documents with the usual one
QueryBodies ==
    {[JSON |-> FilterDoc, MaxDataPoints |-> s.MaxDataPoints, TimeRange |-> s.TimeRange] :
        s \in QuerySettings}
    \cup {[JSON |-> d, MaxDataPoints |-> UsualSettings.MaxDataPoints,
           TimeRange |-> UsualSettings.TimeRange] : d \in FilterDocs \cup OtherDocs}

\* a request: up to n queries, each with the RefID of its position
DataQueryAt(bodies, n) ==
    [RefID |-> RefIDs[n], JSON |-> bodies[n].JSON,
     MaxDataPoints |-> bodies[n].MaxDataPoints, TimeRange |-> bodies[n].TimeRange]

Requests(n) ==
    {[k \in DOMAIN bodies |-> DataQueryAt(bodies, k)] : bodies \in SeqsUpTo(QueryBodies, n)}

NoResponses == [r \in {} |-> [Error |-> NoErr, Frames |-> <<>>]]

InitDsVars ==
    /\ dreq \in Requests(MaxQueries)
    /\ remote \in RemoteStates
    /\ didx = 0
    /\ dresp = NoResponses
    /\ dcalls = <<>>
    /\ dret = "none"
    /\ dpc = "loop"

IdleDsVars ==
    /\ dreq = <<>>
    /\ remote = [getTraceErr |-> TRUE, trace |-> [TraceId |-> TraceIdT1, Spans |-> <<>>],
                 listErr |-> TRUE, batch |-> <<>>]
    /\ didx = 0
    /\ dresp = NoResponses
    /\ dcalls = <<>>
    /\ dret = "none"
    /\ dpc = "idle"

\* the loop of QueryData giving up at the first query that fails
QueryDataQuery_abortOnError ==
    /\ dpc = "loop"
    /\ didx < Len(dreq)
    /\ \E orders \in SpanOrders(remote.trace) :
          LET res == query(remote, orders, dreq[didx + 1])
          IN  /\ dcalls' = dcalls \o res.calls
              /\ IF res.response.Error # NoErr
                 THEN /\ dresp' = dresp
                      /\ dret' = "error"
                      /\ dpc' = "done"
                 ELSE /\ dresp' = (dreq[didx + 1].RefID :> res.response) @@ dresp
                      /\ dret' = dret
                      /\ dpc' = dpc
    /\ didx' = didx + 1
    /\ UNCHANGED <<dreq, remote>>
    /\ UNCHANGED <<earlierVars, tagVars, concVars, lifeVars>>

\* one pass of the loop of QueryData: the query is run and its response is
\* stored under its RefID
QueryDataQuery ==
    /\ dpc = "loop"
    /\ didx < Len(dreq)
    /\ \E orders \in SpanOrders(remote.trace) :
          LET res == query(remote, orders, dreq[didx + 1])
          IN  /\ dcalls' = dcalls \o res.calls
              /\ dresp' = (dreq[didx + 1].RefID :> res.response) @@ dresp
    /\ didx' = didx + 1
    /\ UNCHANGED <<dreq, remote, dret, dpc>>
    /\ UNCHANGED <<earlierVars, tagVars, concVars, lifeVars>>

\* return response, nil
QueryDataReturn ==
    /\ dpc = "loop"
    /\ didx = Len(dreq)
    /\ dret' = "nil"
    /\ dpc' = "done"
    /\ UNCHANGED <<dreq, remote, didx, dresp, dcalls>>
    /\ UNCHANGED <<earlierVars, tagVars, concVars, lifeVars>>

(***************************************************************************)
(* The life of one datasource instance: the handlers and Dispose           *)
(***************************************************************************)
MaxOps == 3

\* QueryData as one step: every query run in turn, its response stored
\* under its RefID, and a nil error returned
RECURSIVE queryLoop(_, _, _, _)
queryLoop(rem, orders, queries, responses) ==
    IF queries = <<>> THEN responses
    ELSE queryLoop(rem, orders, Tail(queries),
                   (Head(queries).RefID :> query(rem, orders, Head(queries)).response)
                       @@ responses)

QueryData(rem, orders, req) ==
    [Responses |-> queryLoop(rem, orders, req, NoResponses), err |-> "nil"]

ProjectIdText(id) == IF id = "p1" THEN <<"p","1">> ELSE <<"p","2">>

RECURSIVE projectTexts(_)
projectTexts(ids) ==
    IF ids = <<>> THEN <<>>
    ELSE <<jsonString(ProjectIdText(Head(ids)))>> \o projectTexts(Tail(ids))

\* json.Marshal(&ListProjectsResponse{Projects: projects}): a nil list is
\* written as null
marshalProjects(p) ==
    <<"{","\"","p","r","o","j","e","c","t","s","\"",":">> \o
    (IF p.isNil THEN <<"n","u","l","l">>
     ELSE <<"[">> \o Join(projectTexts(p.projectIDs), <<",">>) \o <<"]">>) \o
    <<"}">>

ResourcePaths == { <<"p","r","o","j","e","c","t","s">>, <<"P","r","o","j","e","c","t","s">>, <<"t","r","a","c","e","s">> }

\* CallResource: any path but projects is answered 404; a failed listing
\* is logged and the nil list is sent
CallResource(path, response) ==
    IF ToLower(path) # <<"p","r","o","j","e","c","t","s">>
    THEN [Status |-> 404, Body |-> <<"N","o"," ","s","u","c","h"," ","p","a","t","h">>]
    ELSE [Status |-> 200, Body |-> marshalProjects(ListProjects(response))]

\* the settings of the instance: JSON that does not parse, or a project
HealthSettings == {[valid |-> v, DefaultProject |-> p] : v \in BOOLEAN, p \in DefaultProjects}

\* TestConnection from its start to its return
TestConnectionOutcome(ctxErr, next) ==
    IF ctxErr # NilErr THEN ErrTimeout ELSE afterNext(next)

CheckHealth(settings, ctxErr, next) ==
    LET err == TestConnectionOutcome(ctxErr, next)
    IN  IF ~settings.valid
        THEN [result |-> "nil", Message |-> <<>>, err |-> "unmarshal"]
        ELSE IF err # NilError
        THEN [result |-> "ERROR", Message |-> <<"failed to run test query: ">> \o err,
              err |-> "nil"]
        ELSE [result |-> "OK",
              Message |-> <<"Successfully queried traces from GCP project ",
                            settings.DefaultProject>>,
              err |-> "nil"]

\* the service as the handlers of the instance find it: answering both
\* calls, or failing both
LifeRemotes ==
    {r \in RemoteStates :
        /\ r.getTraceErr = r.listErr
        /\ ~r.listErr => Len(r.trace.Spans) > 0 /\ Len(r.batch) > 0}

\* once the instance is disposed its connection is closed, and every call
\* on the service fails
Answers(rem) == ~disposed \/ (rem.getTraceErr /\ rem.listErr)

NoResult ==
    [op |-> "none", Responses |-> NoResponses, err |-> "nil", Status |-> 0,
     Body |-> <<>>, result |-> "nil", Message |-> <<>>]

InitLifeVars ==
    /\ closes = 0
    /\ disposed = FALSE
    /\ lops = 0
    /\ lres = NoResult

IdleLifeVars ==
    /\ closes = 0
    /\ disposed = FALSE
    /\ lops = MaxOps
    /\ lres = NoResult

\* QueryData closing the client when it returns
LifeQueryData_deferClose ==
    /\ lops < MaxOps
    /\ \E req \in Requests(1), rem \in LifeRemotes :
          /\ Answers(rem)
          /\ \E orders \in SpanOrders(rem.trace) :
                LET r == QueryData(rem, orders, req)
                IN  lres' = [NoResult EXCEPT !.op = "QueryData",
                                             !.Responses = r.Responses, !.err = r.err]
    /\ lops' = lops + 1
    /\ closes' = closes + 1
    /\ UNCHANGED disposed
    /\ UNCHANGED <<earlierVars, tagVars, concVars, dsVars>>

LifeQueryData ==
    /\ lops < MaxOps
    /\ \E req \in Requests(1), rem \in LifeRemotes :
          /\ Answers(rem)
          /\ \E orders \in SpanOrders(rem.trace) :
                LET r == QueryData(rem, orders, req)
                IN  lres' = [NoResult EXCEPT !.op = "QueryData",
                                             !.Responses = r.Responses, !.err = r.err]
    /\ lops' = lops + 1
    /\ UNCHANGED <<closes, disposed>>
    /\ UNCHANGED <<earlierVars, tagVars, concVars, dsVars>>

LifeCallResource ==
    /\ lops < MaxOps
    /\ \E path \in ResourcePaths, response \in ListResponses(1) :
          /\ ~disposed \/ response.err # NilErr
          /\ LET r == CallResource(path, response)
             IN  lres' = [NoResult EXCEPT !.op = "CallResource",
                                          !.Status = r.Status, !.Body = r.Body]
    /\ lops' = lops + 1
    /\ UNCHANGED <<closes, disposed>>
    /\ UNCHANGED <<earlierVars, tagVars, concVars, dsVars>>

LifeCheckHealth ==
    /\ lops < MaxOps
    /\ \E settings \in HealthSettings, ctxErr \in CtxErrs, next \in NextResults :
          /\ ~disposed \/ next.err \in ListErrs
          /\ LET r == CheckHealth(settings, ctxErr, next)
             IN  lres' = [NoResult EXCEPT !.op = "CheckHealth", !.result = r.result,
                                          !.Message = r.Message, !.err = r.err]
    /\ lops' = lops + 1
    /\ UNCHANGED <<closes, disposed>>
    /\ UNCHANGED <<earlierVars, tagVars, concVars, dsVars>>

\* Dispose, which the plugin SDK calls once, when it retires the instance:
\* d.client.Close() closes the connection of the client
Dispose ==
    /\ ~disposed
    /\ closes' = closes + 1
    /\ disposed' = TRUE
    /\ lres' = [NoResult EXCEPT !.op = "Dispose"]
    /\ UNCHANGED lops
    /\ UNCHANGED <<earlierVars, tagVars, concVars, dsVars>>

(***************************************************************************)
(* Specifications, one per component                                       *)
(***************************************************************************)
IdleOrch == IdleDsVars /\ IdleLifeVars

IdleLater == IdleTagVars /\ IdleConcVars /\ IdleOrch

IdleOthers == IdleProjVars /\ IdleConnVars /\ IdleSpanVars /\ IdleLater

InitList == InitListVars /\ IdleTableVars /\ IdleFilterVars /\ IdleOthers
NextList == ListTraces
SpecList == InitList /\ [][NextList]_vars

InitTable == IdleListVars /\ InitTableVars /\ IdleFilterVars /\ IdleOthers
NextTable == CreateTracesTableFrame
SpecTable == InitTable /\ [][NextTable]_vars

InitFilter == IdleListVars /\ IdleTableVars /\ InitFilterVars /\ IdleOthers
NextFilter == GetListTracesFilterCall
SpecFilter == InitFilter /\ [][NextFilter]_vars

InitToken == IdleListVars /\ IdleTableVars /\ InitTokenVars /\ IdleOthers
NextToken == GetListTracesFilterCall
SpecToken == InitToken /\ [][NextToken]_vars

InitProjects ==
    IdleListVars /\ IdleTableVars /\ IdleFilterVars
        /\ InitProjVars /\ IdleConnVars /\ IdleSpanVars /\ IdleLater
NextProjects == ListProjectsCall
SpecProjects == InitProjects /\ [][NextProjects]_vars

InitConn ==
    IdleListVars /\ IdleTableVars /\ IdleFilterVars
        /\ IdleProjVars /\ InitConnVars /\ IdleSpanVars /\ IdleLater
NextConn == TestConnection
SpecConn == InitConn /\ [][NextConn]_vars

InitSpan ==
    IdleListVars /\ IdleTableVars /\ IdleFilterVars
        /\ IdleProjVars /\ IdleConnVars /\ InitSpanVars /\ IdleLater
NextSpan == SpanNames
SpecSpan == InitSpan /\ [][NextSpan]_vars

IdleEarlier ==
    IdleListVars /\ IdleTableVars /\ IdleFilterVars
        /\ IdleProjVars /\ IdleConnVars /\ IdleSpanVars

InitTags == IdleEarlier /\ InitTagVars /\ IdleConcVars /\ IdleOrch
NextTags == GetTagsCall
SpecTags == InitTags /\ [][NextTags]_vars

InitConc == IdleEarlier /\ IdleTagVars /\ InitConcVars /\ IdleOrch
NextConc ==
    \E p \in Invocations :
        \/ ConcStart(p)
        \/ ConcNextEntry(p)
        \/ ConcNextDone(p)
        \/ ConcNextErr(p)
SpecConc == InitConc /\ [][NextConc]_vars

InitQuery == IdleEarlier /\ IdleTagVars /\ IdleConcVars /\ InitDsVars /\ IdleLifeVars
NextQuery ==
    \/ QueryDataQuery
    \/ QueryDataReturn
SpecQuery == InitQuery /\ [][NextQuery]_vars

InitLife == IdleEarlier /\ IdleTagVars /\ IdleConcVars /\ IdleDsVars /\ InitLifeVars
NextLife ==
    \/ LifeQueryData
    \/ LifeCallResource
    \/ LifeCheckHealth
    \/ Dispose
SpecLife == InitLife /\ [][NextLife]_vars

(***************************************************************************)
(* Properties of Client.ListTraces (under SpecList)                        *)
(***************************************************************************)
\* position of the first error in the iterator's behaviour, 0 when it has none
FirstErr == Index(script, IterErr)

\* C1: for every TracesQuery and every behaviour of the remote iterator, the
\* slice ListTraces returns holds at most Limit entries.
C1_AtMostLimit == ltpc = "done" => Len(ret.entries) <= q.Limit

\* C2: when the very first fetch fails, before any trace was accumulated,
\* ListTraces returns a non-nil error.
C2_FirstFetchErrorPropagated ==
    (ltpc = "done" /\ FirstErr = 1) => ret.err # NilErr

\* C3: when the iterator fails after k >= 1 traces were accumulated, k < Limit,
\* ListTraces stops there and returns exactly those k traces, in fetch order,
\* with a nil error.
C3_PartialResultOnError ==
    (ltpc = "done" /\ FirstErr >= 2 /\ FirstErr - 1 < q.Limit)
        => /\ ret = [entries |-> SubSeq(script, 1, FirstErr - 1), err |-> NilErr]
           /\ fetches = FirstErr

C3_Witness ==
    /\ ltpc = "done"
    /\ FirstErr = 3
    /\ q.Limit > 2
    /\ Len(script) > FirstErr
    /\ Len(ret.entries) = 2
    /\ ret.entries[1] # ret.entries[2]

\* C5: the page size put in the request is min(Limit, 1000), so it never
\* exceeds 1000.
C5_PageSizeCapped ==
    ltpc \in {"loop", "done"}
        => /\ pageSize = (IF q.Limit <= 1000 THEN q.Limit ELSE 1000)
           /\ pageSize <= 1000

C5_Witness == ltpc = "loop" /\ q.Limit > 1000 /\ pageSize = 1000

\* C6: once the Limit-th trace has been appended, no further it.Next() is
\* issued.
C6_NoFetchAfterLimit ==
    [][(q.Limit >= 1 /\ Len(entries) >= q.Limit) => fetches' = fetches]_vars

C6_Witness ==
    /\ ltpc = "done"
    /\ q.Limit >= 2
    /\ Len(entries) = q.Limit
    /\ fetches = q.Limit
    /\ fetches < Len(script)

(***************************************************************************)
(* Properties of createTracesTableFrame (under SpecTable)                  *)
(***************************************************************************)
WithSpans(ts) == SelectSeq(ts, LAMBDA t : Len(t.Spans) >= 1)

\* C4: a trace with zero spans contributes no value to any column of the
\* summary frame, and every trace with at least one span contributes exactly
\* one row.
C4_ZeroSpanTraceNoValue ==
    tfpc = "done"
        => /\ \A c \in TableColumns : Len(frame[c]) = Len(WithSpans(traces))
           /\ frame[ColTraceID] = [n \in DOMAIN WithSpans(traces) |-> WithSpans(traces)[n].TraceId]

(***************************************************************************)
(* Properties of GetListTracesFilter (under SpecFilter)                    *)
(***************************************************************************)
Tokens == FindAllString(queryText)

HasColon(t) == \E n \in DOMAIN t : t[n] = ":"
AfterColon(t) == SubSeq(t, Index(t, ":") + 1, Len(t))
BeforeColon(t) == SubSeq(t, 1, Index(t, ":") - 1)

\* a token whose text before the first ":" is LABEL in any letter case
IsLabelToken(t) ==
    /\ HasColon(t)
    /\ Len(BeforeColon(t)) = 5
    /\ BeforeColon(t)[1] \in {"L", "l"}
    /\ BeforeColon(t)[2] \in {"A", "a"}
    /\ BeforeColon(t)[3] \in {"B", "b"}
    /\ BeforeColon(t)[4] \in {"E", "e"}
    /\ BeforeColon(t)[5] \in {"L", "l"}

Malformed(t) == ~HasColon(t) \/ (IsLabelToken(t) /\ ~HasColon(AfterColon(t)))

MalformedIn(toks) == {n \in DOMAIN toks : Malformed(toks[n])}

MalformedAt == MalformedIn(Tokens)

First(S) == CHOOSE n \in S : \A m \in S : n <= m

FirstMalformed == First(MalformedAt)

\* C7: if any token is malformed, GetListTracesFilter returns the empty
\* filter, whatever was translated before, and the error of the first
\* malformed token in input order.
C7_FirstErrorNoPartialOutput ==
    gfpc = "done"
        => LET toks == Tokens
               bad == MalformedIn(toks)
           IN  bad # {}
                   => /\ filterRet.filter = <<>>
                      /\ filterRet.err # NoErr
                      /\ filterRet.err = getFilterKeyValue(toks[First(bad)]).err

C7_Witness ==
    /\ gfpc = "done"
    /\ Cardinality(MalformedAt) = 1
    /\ FirstMalformed = 2
    /\ ~IsLabelToken(Tokens[2])
    /\ filterRet.filter = <<>>
    /\ filterRet.err = ErrKeyValue(<<"v">>)

\* the text the claim gives for a token without ":"
BadFilterText(t) ==
    <<"b","a","d"," ","f","i","l","t","e","r"," ","[">> \o t \o
    <<"]","."," ","M","u","s","t"," ","b","e"," ","i","n"," ","f","o","r","m"," ","[","k","e","y","]",":","[","v","a","l","u","e","]">>

C9_CapitalBadFilter ==
    (gfpc = "done" /\ MalformedAt # {})
        => LET t == Tokens[FirstMalformed]
           IN  IF ~HasColon(t)
               THEN Contains(filterRet.err,
                        <<"B","a","d"," ","f","i","l","t","e","r"," ","[">> \o t \o
                        <<"]","."," ","M","u","s","t"," ","b","e"," ","i","n"," ","f","o","r","m"," ","[","k","e","y","]",":","[","v","a","l","u","e","]">>)
               ELSE Contains(filterRet.err,
                        <<"B","a","d"," ","f","i","l","t","e","r"," ","[">> \o t \o
                        <<"]","."," ","M","u","s","t"," ","b","e"," ","i","n"," ","f","o","r","m"," ","L","A","B","E","L",":","[","k","e","y","]",":","[","v","a","l","u","e","]">>)

\* the effective pair of a LABEL token: the text between the first and the
\* second ":" and everything after the second ":"
EffectiveKey(t) == BeforeColon(AfterColon(t))
EffectiveValue(t) == AfterColon(AfterColon(t))

\* C10: for a token LABEL:<key>:<value>, LABEL in any letter case, the key
\* is the text between the first and second ":" and the value everything
\* after the second ":"; the LABEL prefix is dropped and the alias table and
\* the special-character rule are applied to that pair.
C10_LabelPrefixDropped ==
    LET toks == Tokens
    IN  /\ \A n \in DOMAIN toks :
              (IsLabelToken(toks[n]) /\ HasColon(AfterColon(toks[n])))
                  => getFilterKeyValue(toks[n]) =
                         moveSpecialChars(convertKey(EffectiveKey(toks[n])),
                                          EffectiveValue(toks[n]))
        /\ (gfpc = "done" /\ Len(toks) = 1 /\ IsLabelToken(toks[1])
                /\ HasColon(AfterColon(toks[1])))
              => LET r == moveSpecialChars(convertKey(EffectiveKey(toks[1])),
                                           EffectiveValue(toks[1]))
                 IN  filterRet = [filter |-> r.key \o <<":">> \o r.value, err |-> NoErr]

C10_Witness ==
    /\ gfpc = "done"
    /\ queryText = <<"L","a","B","e","L",":","R","o","o","t","S","p","a","n",":","+","v">>
    /\ filterRet = [filter |-> <<"+","r","o","o","t",":","v">>, err |-> NoErr]

\* the text the claim gives for a LABEL token without a second ":"
BadLabelFilterText(t) ==
    <<"b","a","d"," ","f","i","l","t","e","r"," ","[">> \o t \o
    <<"]","."," ","M","u","s","t"," ","b","e"," ","i","n"," ","f","o","r","m"," ","L","A","B","E","L",":","[","k","e","y","]",":","[","v","a","l","u","e","]">>

Item(t) == LET r == getFilterKeyValue(t) IN r.key \o <<":">> \o r.value

\* where the n-th item starts in the output: after the items before it and
\* one separator for each of them
RECURSIVE ItemOffset(_, _)
ItemOffset(toks, n) ==
    IF n = 1 THEN 0 ELSE ItemOffset(toks, n - 1) + Len(Item(toks[n - 1])) + 1

\* C16: a query text of n well-formed tokens yields exactly n key:value
\* items, in input order, separated by exactly one space, with no leading or
\* trailing space and duplicates kept; with n = 0 the output is the empty
\* text and there is no error.
C16_ItemsInOrderSingleSpace ==
    gfpc = "done"
        => LET toks == Tokens
               n == Len(toks)
           IN  MalformedIn(toks) = {}
                   => /\ filterRet.err = NoErr
                      /\ n = 0 => filterRet.filter = <<>>
                      /\ n > 0 => Len(filterRet.filter) =
                                      ItemOffset(toks, n) + Len(Item(toks[n]))
                      /\ \A m \in 1..n :
                            /\ SubSeq(filterRet.filter, ItemOffset(toks, m) + 1,
                                      ItemOffset(toks, m) + Len(Item(toks[m]))) = Item(toks[m])
                            /\ m > 1 => filterRet.filter[ItemOffset(toks, m)] = " "

C16_Witness ==
    /\ gfpc = "done"
    /\ queryText = <<" ", "k", ":", " ", "k", ":">>
    /\ filterRet = [filter |-> <<"k", ":", " ", "k", ":">>, err |-> NoErr]

NonSpace(c) == ~IsSpace(c)

\* the positions of the double quotes of a text, in order
QuotesAt(t) ==
    LET RECURSIVE from(_)
        from(n) == IF n > Len(t) THEN <<>>
                   ELSE IF t[n] = "\"" THEN <<n>> \o from(n + 1) ELSE from(n + 1)
    IN  from(1)

\* with no backslash in the text, the quotes pair up from the left: every
\* span from an odd quote to the quote after it lies inside one token
QuotedSpansKept(t, toks) ==
    LET qs == QuotesAt(t)
    IN  \A j \in DOMAIN qs :
            (j % 2 = 1 /\ j + 1 <= Len(qs))
                => \E n \in DOMAIN toks : Contains(toks[n], SubSeq(t, qs[j], qs[j + 1]))

\* C17: the tokens partition the input; the text between a double
\* quote and the quote closing it is never split; every non-whitespace
\* character of the input belongs to exactly one token, none is discarded.
C17_TokensPartitionInput ==
    LET toks == Tokens
    IN  /\ SelectSeq(Flatten(toks), NonSpace) = SelectSeq(queryText, NonSpace)
        /\ QuotedSpansKept(queryText, toks)


(***************************************************************************)
(* Properties of getFilterKeyValue on single tokens (under SpecToken)      *)
(***************************************************************************)
\* the alias table as the claim lists it: friendly key, native key
AliasTable ==
    { << <<"R","o","o","t","S","p","a","n">>, <<"r","o","o","t">> >>,
      << <<"S","p","a","n","N","a","m","e">>, <<"s","p","a","n">> >>,
      << <<"H","a","s","L","a","b","e","l">>, <<"l","a","b","e","l">> >>,
      << <<"M","i","n","L","a","t","e","n","c","y">>, <<"l","a","t","e","n","c","y">> >>,
      << <<"U","R","L">>, <<"u","r","l">> >>,
      << <<"M","e","t","h","o","d">>, <<"m","e","t","h","o","d">> >>,
      << <<"V","e","r","s","i","o","n">>,
         <<"g",".","c","o","/","g","a","e","/","a","p","p","/","v","e","r","s","i","o","n">> >>,
      << <<"S","e","r","v","i","c","e">>,
         <<"g",".","c","o","/","g","a","e","/","a","p","p","/","m","o","d","u","l","e">> >>,
      << <<"S","t","a","t","u","s">>,
         <<"/","h","t","t","p","/","s","t","a","t","u","s","_","c","o","d","e">> >> }

NoLeadingSpecial(v) == v = <<>> \/ v[1] \notin {"+", "^"}

\* C12: for each friendly key K of the alias table and each value v without
\* a leading "+" or "^", the token K:v is translated to <native>:v; the value,
\* further ":" included, is unchanged.
C12_AliasTable ==
    LET toks == Tokens
    IN  /\ \A n \in DOMAIN toks : \A a \in AliasTable :
              (HasColon(toks[n]) /\ BeforeColon(toks[n]) = a[1]
                   /\ NoLeadingSpecial(AfterColon(toks[n])))
                  => getFilterKeyValue(toks[n]) =
                         [key |-> a[2], value |-> AfterColon(toks[n]), err |-> NoErr]
        /\ \A a \in AliasTable :
              (gfpc = "done" /\ Len(toks) = 1 /\ HasColon(toks[1])
                   /\ BeforeColon(toks[1]) = a[1] /\ NoLeadingSpecial(AfterColon(toks[1])))
                  => filterRet = [filter |-> a[2] \o <<":">> \o AfterColon(toks[1]),
                                  err |-> NoErr]

C12_Witness ==
    /\ gfpc = "done"
    /\ queryText = <<"S","e","r","v","i","c","e",":","v",":","w">>
    /\ filterRet.filter =
           <<"g",".","c","o","/","g","a","e","/","a","p","p","/","m","o","d","u","l","e",":","v",":","w">>

\* C13: a token whose key is no friendly key (compared exactly, letter case
\* included) and is not LABEL, and whose value has no leading "+" or "^", is
\* emitted unchanged; so are the empty value and a key that differs from a
\* friendly key in letter case only.
C13_NonAliasUnchanged ==
    LET toks == Tokens
    IN  /\ \A n \in DOMAIN toks :
              (HasColon(toks[n]) /\ ~IsLabelToken(toks[n])
                   /\ (\A a \in AliasTable : BeforeColon(toks[n]) # a[1])
                   /\ NoLeadingSpecial(AfterColon(toks[n])))
                  => getFilterKeyValue(toks[n]) =
                         [key |-> BeforeColon(toks[n]), value |-> AfterColon(toks[n]),
                          err |-> NoErr]
        /\ (gfpc = "done" /\ Len(toks) = 1 /\ HasColon(toks[1]) /\ ~IsLabelToken(toks[1])
                /\ (\A a \in AliasTable : BeforeColon(toks[1]) # a[1])
                /\ NoLeadingSpecial(AfterColon(toks[1])))
              => filterRet = [filter |-> toks[1], err |-> NoErr]

C13_Witness ==
    /\ gfpc = "done"
    /\ queryText = <<"r","o","o","t","s","p","a","n",":">>
    /\ filterRet = [filter |-> queryText, err |-> NoErr]

\* the key and the value the translation works on: those of the token, and
\* for a LABEL token those after the LABEL prefix
TokenKey(t) == IF IsLabelToken(t) THEN EffectiveKey(t) ELSE BeforeColon(t)
TokenValue(t) == IF IsLabelToken(t) THEN EffectiveValue(t) ELSE AfterColon(t)

\* the special-character rule as stated: the pair first, then one leading
\* character of a value of any length
SpecialCharsAsStated(k, v) ==
    IF Len(v) >= 2 /\ <<v[1], v[2]>> \in {<<"^", "+">>, <<"+", "^">>}
    THEN [key |-> <<"+", "^">> \o k, value |-> SubSeq(v, 3, Len(v)), err |-> NoErr]
    ELSE IF Len(v) >= 1 /\ v[1] \in {"+", "^"}
    THEN [key |-> <<v[1]>> \o k, value |-> SubSeq(v, 2, Len(v)), err |-> NoErr]
    ELSE [key |-> k, value |-> v, err |-> NoErr]

\* the rule with the single character moved only off a value of two
\* characters or more
SpecialCharsFromTwoChars(k, v) ==
    IF Len(v) >= 2 /\ <<v[1], v[2]>> \in {<<"^", "+">>, <<"+", "^">>}
    THEN [key |-> <<"+", "^">> \o k, value |-> SubSeq(v, 3, Len(v)), err |-> NoErr]
    ELSE IF Len(v) >= 2 /\ v[1] \in {"+", "^"}
    THEN [key |-> <<v[1]>> \o k, value |-> SubSeq(v, 2, Len(v)), err |-> NoErr]
    ELSE [key |-> k, value |-> v, err |-> NoErr]

\* C14 as stated: a value beginning with ^+ or +^ gives the key the prefix +^
\* and loses the two characters; otherwise a value beginning with one + or ^,
\* whatever its length and also when it is that one character only, loses the
\* character to the front of the key; otherwise key and value are unchanged.
C14_SpecialCharsAnyLength ==
    LET toks == Tokens
    IN  \A n \in DOMAIN toks :
            ~Malformed(toks[n])
                => getFilterKeyValue(toks[n]) =
                       SpecialCharsAsStated(convertKey(TokenKey(toks[n])),
                                            TokenValue(toks[n]))

\* C14 amended: a value beginning with ^+ or +^ gives the key the prefix +^
\* and loses the two characters; otherwise a value of two characters or more
\* beginning with + or ^ loses that character to the front of the key; every
\* other value, the one-character values + and ^ included, is unchanged.
C14_SpecialCharsFromTwoChars ==
    LET toks == Tokens
    IN  /\ \A n \in DOMAIN toks :
              ~Malformed(toks[n])
                  => getFilterKeyValue(toks[n]) =
                         SpecialCharsFromTwoChars(convertKey(TokenKey(toks[n])),
                                                  TokenValue(toks[n]))
        /\ (gfpc = "done" /\ Len(toks) = 1 /\ ~Malformed(toks[1]))
              => LET r == SpecialCharsFromTwoChars(convertKey(TokenKey(toks[1])),
                                                   TokenValue(toks[1]))
                 IN  filterRet = [filter |-> r.key \o <<":">> \o r.value, err |-> NoErr]

C14_Witness ==
    /\ gfpc = "done"
    /\ queryText = <<"k","e","y","1",":","^","+","v">>
    /\ filterRet = [filter |-> <<"+","^","k","e","y","1",":","v">>, err |-> NoErr]

\* translating the output once more gives the same output and no error
Retranslated == GetListTracesFilter(filterRet.filter)

\* C15 as stated: for every query text of well-formed tokens whose values
\* carry no leading "+" or "^", translating the output again returns it
\* unchanged.
C15_Idempotent ==
    gfpc = "done"
        => LET toks == Tokens
           IN  (/\ MalformedIn(toks) = {}
                /\ \A n \in DOMAIN toks : NoLeadingSpecial(TokenValue(toks[n])))
                   => Retranslated = [filter |-> filterRet.filter, err |-> NoErr]

IsLabelWord(k) == ToLower(k) = <<"l","a","b","e","l">>

\* C15 amended: the same, for the query texts in which no token's key (for a
\* LABEL token: the key after the prefix) is HasLabel or, in any letter case,
\* LABEL.
C15_IdempotentButLabelKeys ==
    gfpc = "done"
        => LET toks == Tokens
           IN  (/\ MalformedIn(toks) = {}
                /\ \A n \in DOMAIN toks :
                      /\ NoLeadingSpecial(TokenValue(toks[n]))
                      /\ TokenKey(toks[n]) # <<"H","a","s","L","a","b","e","l">>
                      /\ ~IsLabelWord(TokenKey(toks[n])))
                   => Retranslated = [filter |-> filterRet.filter, err |-> NoErr]

C15_Witness ==
    /\ gfpc = "done"
    /\ queryText = <<"L","A","B","E","L",":","U","R","L",":","v",":","w",
                     " ","k","e","y","1",":","v">>
    /\ filterRet.filter = <<"u","r","l",":","v",":","w"," ","k","e","y","1",":","v">>
    /\ Retranslated = filterRet

(***************************************************************************)
(* Properties of ListProjects (under SpecProjects)                         *)
(***************************************************************************)
NotBeingDeleted(p) ==
    p.LifecycleState \notin {"DELETE_REQUESTED", "DELETE_IN_PROGRESS"}

\* C18: ListProjects returns exactly the IDs of the projects whose lifecycle
\* state is neither DELETE_REQUESTED nor DELETE_IN_PROGRESS, in the order of
\* the remote listing, and an error with no list when the remote call fails.
C18_ProjectsNotBeingDeleted ==
    lppc = "done"
        => IF projResp.err = NilErr
           THEN LET keep == SelectSeq(projResp.Projects, NotBeingDeleted)
                IN  /\ projRet.err = NilErr
                    /\ ~projRet.isNil
                    /\ projRet.projectIDs = [n \in DOMAIN keep |-> keep[n].ProjectId]
           ELSE /\ projRet.err = projResp.err
                /\ projRet.isNil
                /\ projRet.projectIDs = <<>>

C18_Witness ==
    /\ lppc = "done"
    /\ projResp.err = NilErr
    /\ Len(projResp.Projects) = 3
    /\ projResp.Projects[1].LifecycleState = "DELETE_IN_PROGRESS"
    /\ projResp.Projects[2] = [ProjectId |-> "p2", LifecycleState |-> "ACTIVE"]
    /\ projResp.Projects[3] = [ProjectId |-> "p1", LifecycleState |-> "LIFECYCLE_STATE_UNSPECIFIED"]
    /\ projRet.projectIDs = <<"p2", "p1">>

(***************************************************************************)
(* Properties of TestConnection (under SpecConn)                           *)
(***************************************************************************)
Fetched == tcCtxErr = "nil"

GotTrace == Fetched /\ tcNext.err = "nil" /\ tcNext.entry = "trace"

NothingFound ==
    Fetched /\ (tcNext.err = "no more items in iterator"
                    \/ (tcNext.err = "nil" /\ tcNext.entry = "nil"))

\* the deadline of the call expired or the call was cancelled, before the
\* fetch or during it
ExpiredOrCancelled ==
    \/ ~Fetched
    \/ tcNext.err \in {"context deadline exceeded", "context canceled"}

OtherFailure == Fetched /\ ~GotTrace /\ ~NothingFound /\ ~ExpiredOrCancelled

TimeoutErrors == { <<"timeout">>, <<"list entries: ", "timeout">> }

\* C19 as stated: nil if and only if the single fetch yields a non-nil trace
\* without error; an exhausted iterator or a nil entry yields no entries; an
\* expired or cancelled deadline yields a timeout error; any other remote
\* failure yields list entries: <cause>; the three are reported by pairwise
\* distinct errors.
C19_ConnectionOutcomes ==
    tcpc = "done"
        => /\ tcRet = <<>> <=> GotTrace
           /\ NothingFound => tcRet = <<"no entries">>
           /\ ExpiredOrCancelled => tcRet \in TimeoutErrors
           /\ OtherFailure => tcRet = <<"list entries: ", tcNext.err>>
           /\ tcRet = <<"no entries">> => NothingFound
           /\ tcRet \in TimeoutErrors => ExpiredOrCancelled

\* the fetch failed with something else than the end of the listing or the
\* expired deadline; a cancelled context is such a failure
OtherFetchFailure ==
    Fetched /\ tcNext.err \notin {"nil", "no more items in iterator",
                                  "context deadline exceeded"}

\* C19 amended: nil if and only if the single fetch yields a non-nil trace
\* without error; an exhausted iterator or a nil entry yields no entries; a
\* context already expired or cancelled before the fetch yields timeout; a
\* fetch failing with the expired deadline yields list entries: timeout; any
\* other failure of the fetch, a cancelled context included, yields
\* list entries: <cause>; no entries is returned for no other condition, and
\* the two timeout errors only for a context done before the fetch or a fetch
\* past its deadline.
C19_ConnectionOutcomesCancelGeneric ==
    tcpc = "done"
        => /\ tcRet = <<>> <=> GotTrace
           /\ NothingFound => tcRet = <<"no entries">>
           /\ ~Fetched => tcRet = <<"timeout">>
           /\ (Fetched /\ tcNext.err = "context deadline exceeded")
                 => tcRet = <<"list entries: ", "timeout">>
           /\ OtherFetchFailure => tcRet = <<"list entries: ", tcNext.err>>
           /\ tcRet = <<"no entries">> => NothingFound
           /\ tcRet \in TimeoutErrors
                 => (~Fetched \/ tcNext.err = "context deadline exceeded")

C19_Witness ==
    /\ tcpc = "done"
    /\ Fetched
    /\ tcNext.err = "context canceled"
    /\ tcRet = <<"list entries: ", "context canceled">>

(***************************************************************************)
(* Properties of the span names (under SpecSpan)                           *)
(***************************************************************************)
\* the value of the first key when it is present and not empty, else the
\* value of the second key, the empty text when that is absent
FirstNonEmpty(labels, first, second) ==
    IF first \in DOMAIN labels /\ labels[first] # <<>> THEN labels[first]
    ELSE IF second \in DOMAIN labels THEN labels[second]
    ELSE <<>>

\* C20: the HTTP method is the value of label http.method if present and
\* non-empty, else the value of /http/method; the service name likewise is
\* service.name, else g.co/gae/app/module; the operation name is
\* HTTP <method> <name> when the method is non-empty, else the span name.
C20_MethodServiceOperationName ==
    sppc = "done"
        => LET method == FirstNonEmpty(spanIn.Labels,
                             <<"h","t","t","p",".","m","e","t","h","o","d">>,
                             <<"/","h","t","t","p","/","m","e","t","h","o","d">>)
               service == FirstNonEmpty(spanIn.Labels,
                             <<"s","e","r","v","i","c","e",".","n","a","m","e">>,
                             <<"g",".","c","o","/","g","a","e","/","a","p","p","/","m","o","d","u","l","e">>)
           IN  /\ spanOut.httpMethod = method
               /\ spanOut.serviceName = service
               /\ spanOut.operationName =
                      IF method # <<>>
                      THEN <<"H","T","T","P"," ">> \o method \o <<" ">> \o spanIn.Name
                      ELSE spanIn.Name

C20_Witness ==
    /\ sppc = "done"
    /\ spanIn.Name = <<"s","p">>
    /\ DOMAIN spanIn.Labels = {otelMethodKey, cloudTraceMethodKey, otelServiceKey}
    /\ spanIn.Labels[otelMethodKey] = <<>>
    /\ spanIn.Labels[otelServiceKey] = <<"s","v","c">>
    /\ spanOut.operationName = <<"H","T","T","P"," ","P","U","T"," ","s","p">>
    /\ spanOut.serviceName = <<"s","v","c">>

(***************************************************************************)
(* Properties of the summary rows (under SpecTable)                        *)
(***************************************************************************)
\* the trace name put together from its segments, a separator standing only
\* between two segments that are present
NameFromSegments(span) ==
    LET service == GetServiceName(span)
        m == getHTTPMethod(span)
        method == IF m # <<>> THEN <<"H","T","T","P"," ">> \o m ELSE <<>>
        name == span.Name
        afterService == IF service # <<>> /\ (method # <<>> \/ name # <<>>)
                        THEN <<":", " ">> ELSE <<>>
        afterMethod == IF method # <<>> /\ name # <<>> THEN <<" ">> ELSE <<>>
    IN  service \o afterService \o method \o afterMethod \o name

Quo(a, b) == IF a >= 0 THEN a \div b ELSE -((-a) \div b)

\* C23: the Latency of a summary row is the number of whole milliseconds in
\* (endTime - startTime) of the root span, in integer arithmetic, not clamped
\* when negative; end = start + 1ms gives 1.
C23_LatencyWholeMillisOfDifference ==
    tfpc = "done"
        => LET rows == WithSpans(traces)
           IN  /\ Len(frame[ColLatency]) = Len(rows)
               /\ \A n \in DOMAIN rows :
                     LET root == rows[n].Spans[1]
                     IN  /\ frame[ColLatency][n] = Quo(root.EndTime - root.StartTime, 1000)
                         /\ root.EndTime = root.StartTime + 1000 => frame[ColLatency][n] = 1

\* the millisecond a microsecond timestamp falls into
MilliOf(t) == (t - (t % 1000)) \div 1000

\* C23 amended: the Latency of a summary row is the difference between the
\* millisecond the end timestamp falls into and the millisecond the start
\* timestamp falls into, each timestamp being cut to whole milliseconds before
\* the subtraction; it is not clamped when negative, it is 1 whenever
\* end = start + 1ms, and it differs from the whole milliseconds of
\* (endTime - startTime) by at most one.
C23_LatencyDifferenceOfMillis ==
    tfpc = "done"
        => LET rows == WithSpans(traces)
           IN  /\ Len(frame[ColLatency]) = Len(rows)
               /\ \A n \in DOMAIN rows :
                     LET root == rows[n].Spans[1]
                         whole == Quo(root.EndTime - root.StartTime, 1000)
                     IN  /\ frame[ColLatency][n] = MilliOf(root.EndTime) - MilliOf(root.StartTime)
                         /\ root.EndTime = root.StartTime + 1000 => frame[ColLatency][n] = 1
                         /\ frame[ColLatency][n] - whole \in {-1, 0, 1}

C23_Witness ==
    /\ tfpc = "done"
    /\ Len(traces) = 2
    /\ Len(traces[1].Spans) = 1 /\ Len(traces[2].Spans) = 1
    /\ traces[1].Spans[1].StartTime = 900 /\ traces[1].Spans[1].EndTime = 1100
    /\ traces[2].Spans[1].StartTime = 2000 /\ traces[2].Spans[1].EndTime = 1000
    /\ frame[ColLatency] = <<1, -1>>

(***************************************************************************)
(* Properties of GetTags (under SpecTags)                                  *)
(***************************************************************************)
\* how often a text occurs in another
Occurrences(str, sub) ==
    Cardinality({n \in 0..(Len(str) - Len(sub)) : SubSeq(str, n + 1, n + Len(sub)) = sub})

\* a label value as JSON writes it inside the quotes
WrittenValue(v) == IF v = <<"<", "\"">> THEN <<"\\","u","0","0","3","c","\\","\"">> ELSE v

\* the {key, value} pair of a label as it stands in a JSON array
PairText(k, v) ==
    <<"{","\"","k","e","y","\"",":","\"">> \o k \o <<"\"",",","\"","v","a","l","u","e","\"",":","\"">> \o WrittenValue(v) \o <<"\"","}">>

IsServiceTagKey(k) ==
    \/ HasPrefix(k, <<"s","e","r","v","i","c","e",".">>)
    \/ HasPrefix(k, <<"g",".","c","o","/","g","a","e","/","a","p","p","/">>)

EmptyArrayText == <<"[", "]">>

\* C22: GetTags partitions the labels: each label is one {key, value} pair in
\* exactly one of serviceTags and spanTags, in serviceTags exactly when its key
\* starts with service. or g.co/gae/app/; the two arrays hold as many pairs as
\* the span has labels; a set with no member is the empty array, never null.
C22_TagsPartitionLabels ==
    tgpc = "done"
        => LET keys == DOMAIN tagLabels
               pairs(str) == Occurrences(str, <<"{","\"","k","e","y","\"",":">>)
           IN  /\ tagsOut.err = "nil"
               /\ \A k \in keys :
                     LET p == PairText(k, tagLabels[k])
                     IN  /\ Occurrences(tagsOut.serviceTags, p) = IF IsServiceTagKey(k) THEN 1 ELSE 0
                         /\ Occurrences(tagsOut.spanTags, p) = IF IsServiceTagKey(k) THEN 0 ELSE 1
               /\ pairs(tagsOut.serviceTags) + pairs(tagsOut.spanTags) = Cardinality(keys)
               /\ Head(tagsOut.serviceTags) = "[" /\ tagsOut.serviceTags[Len(tagsOut.serviceTags)] = "]"
               /\ Head(tagsOut.spanTags) = "[" /\ tagsOut.spanTags[Len(tagsOut.spanTags)] = "]"
               /\ (\A k \in keys : ~IsServiceTagKey(k)) <=> tagsOut.serviceTags = EmptyArrayText
               /\ (\A k \in keys : IsServiceTagKey(k)) <=> tagsOut.spanTags = EmptyArrayText

C22_Witness ==
    /\ tgpc = "done"
    /\ DOMAIN tagLabels = {gaeServiceKey, otelServiceKey, <<"s","e","r","v","i","c","e">>}
    /\ tagLabels[<<"s","e","r","v","i","c","e">>] = <<"<", "\"">>
    /\ tagsOut.spanTags = <<"[","{","\"","k","e","y","\"",":","\"","s","e","r","v","i","c","e","\"",",","\"","v","a","l","u","e","\"",":","\"","\\","u","0","0","3","c","\\","\"","\"","}","]">>
    /\ Occurrences(tagsOut.serviceTags, <<"}", ",", "{">>) = 1

(***************************************************************************)
(* Properties of concurrent ListTraces invocations (under SpecConc)        *)
(***************************************************************************)
\* C27: each of several ListTraces invocations running concurrently on one
\* client returns, under every interleaving, the result it would return if
\* run alone against the same remote responses; its counter and accumulator
\* are moved by its own steps only.
C27_ConcurrentInvocationsIndependent ==
    \A p \in Invocations :
        /\ cpc[p] = "done" => cret[p] = ListTracesAlone(cq[p], cscript[p])
        /\ cpc[p] = "loop"
              => /\ ci[p] = Len(centries[p])
                 /\ centries[p] = SubSeq(cscript[p], 1, cfetches[p])

C27_Witness ==
    /\ cq["a"].Limit = 2 /\ cq["b"].Limit = 2
    /\ cpc["a"] = "done" /\ cret["a"].entries = <<"t1", "t1">>
    /\ cpc["b"] = "loop" /\ centries["b"] = <<"t1">>

(***************************************************************************)
(* Claims about QueryData and query                                        *)
(***************************************************************************)
\* the query model a query decodes to, and whether it decodes
ModelOf(dq) == Unmarshal(dq.JSON).q
Decodes(dq) == Unmarshal(dq.JSON).err = NoErr

\* the calls a query has made, and those of them that went to the service
CallsOf(refID) == SelectSeq(dcalls, LAMBDA c : c.RefID = refID)
RemoteCallsOf(refID) == SelectSeq(dcalls, LAMBDA c : c.RefID = refID /\ c.op \in RemoteOps)
OpsOf(refID) == [n \in DOMAIN CallsOf(refID) |-> CallsOf(refID)[n].op]

IsFilterQuery(dq) == Decodes(dq) /\ ModelOf(dq).QueryType = <<>>
TranslationOf(dq) == GetListTracesFilter(ModelOf(dq).QueryText)
FailsTranslation(dq) == TranslationOf(dq).err # NoErr

\* C24: a filter query whose text fails translation makes no remote call at
\* any time; once it is answered, its response carries an error that
\* contains the message of the translator, and no frames
C24_BadFilterNoRemoteCall ==
    \A n \in DOMAIN dreq :
        IsFilterQuery(dreq[n]) /\ FailsTranslation(dreq[n]) =>
            /\ RemoteCallsOf(dreq[n].RefID) = <<>>
            /\ n <= didx =>
                  /\ dreq[n].RefID \in DOMAIN dresp
                  /\ Contains(dresp[dreq[n].RefID].Error, TranslationOf(dreq[n]).err)
                  /\ dresp[dreq[n].RefID].Frames = <<>>

\* a request answered in full, whose first query is a filter that fails
\* translation and whose second query reached the service
C24_Witness ==
    /\ dpc = "done"
    /\ Len(dreq) = 2
    /\ IsFilterQuery(dreq[1]) /\ FailsTranslation(dreq[1])
    /\ dresp[dreq[1].RefID].Error # NoErr
    /\ RemoteCallsOf(dreq[2].RefID) # <<>>

\* C28: every TracesQuery handed to ListTraces has a Limit above zero and a
\* range whose start does not follow its end
C28_ListTracesQueryWellFormed ==
    \A n \in DOMAIN dcalls :
        dcalls[n].op = "ListTraces" =>
            dcalls[n].Limit > 0 /\ dcalls[n].From <= dcalls[n].To

\* the id of a trace query holds a character that is not white space
HasVisibleChar(s) == \E n \in DOMAIN s : ~IsSpace(s[n])

IsTraceQuery(dq) ==
    Decodes(dq) /\ ModelOf(dq).QueryType = QueryTypeTraceID
        /\ HasVisibleChar(ModelOf(dq).TraceID)

FailsGetTrace(dq) ==
    IsTraceQuery(dq) /\ (remote.getTraceErr \/ ModelOf(dq).TraceID # remote.trace.TraceId)
FailsListTraces(dq) ==
    IsFilterQuery(dq) /\ ~FailsTranslation(dq) /\ remote.listErr
Fails(dq) ==
    \/ ~Decodes(dq)
    \/ IsFilterQuery(dq) /\ FailsTranslation(dq)
    \/ FailsListTraces(dq)
    \/ FailsGetTrace(dq)

RefIDsOf(queries) == {queries[n].RefID : n \in DOMAIN queries}

\* C25: QueryData returns a nil error and an entry under the RefID of every
\* query; a query has an Error of its own exactly when it fails, and then
\* no frames; the entry of a query is the one it gets when run by itself,
\* and no later query changes it
C25_QueryIsolation ==
    /\ [](/\ dret \in {"none", "nil"}
          /\ DOMAIN dresp = RefIDsOf(SubSeq(dreq, 1, didx))
          /\ dpc = "done" => dret = "nil" /\ DOMAIN dresp = RefIDsOf(dreq)
          /\ \A n \in 1..didx :
                LET res == dresp[dreq[n].RefID]
                IN  /\ Fails(dreq[n]) <=> res.Error # NoErr
                    /\ Fails(dreq[n]) => res.Frames = <<>>
                    /\ \E orders \in SpanOrders(remote.trace) :
                          res = query(remote, orders, dreq[n]).response)
    /\ [][\A r \in DOMAIN dresp : r \in DOMAIN dresp' /\ dresp'[r] = dresp[r]]_vars

\* a request answered in full whose first query fails and whose second
\* holds a frame
C25_Witness ==
    /\ dpc = "done"
    /\ Len(dreq) = 2
    /\ Fails(dreq[1])
    /\ dresp[dreq[1].RefID].Error # NoErr
    /\ Len(dresp[dreq[2].RefID].Frames) = 1

\* the frames of the responses given so far
FramesGiven ==
    {dresp[r].Frames[n] : r \in {x \in DOMAIN dresp : dresp[x].Frames # <<>>}, n \in {1}}

\* a detail frame holds one row for every span of the trace, in their order
DetailRectangular(f) ==
    /\ \A c \in DetailColumns : Len(f.Fields[c]) = Len(remote.trace.Spans)
    /\ \A n \in DOMAIN remote.trace.Spans :
          /\ f.Fields["spanID"][n] = FormatUint(remote.trace.Spans[n].SpanId)
          /\ f.Fields["startTime"][n] = remote.trace.Spans[n].StartTime

\* every row of a summary frame is taken from one trace of the batch
SummaryRectangular(f) ==
    /\ \A c \in TableColumns : Len(f.Fields[c]) = Len(f.Fields[ColTraceID])
    /\ \A n \in DOMAIN f.Fields[ColTraceID] :
          \E k \in DOMAIN remote.batch :
              /\ Len(remote.batch[k].Spans) > 0
              /\ f.Fields[ColTraceID][n] = remote.batch[k].TraceId
              /\ f.Fields[ColTraceName][n] = GetTraceName(remote.batch[k].Spans[1])
              /\ f.Fields[ColStartTime][n] = remote.batch[k].Spans[1].StartTime

\* C29: every frame is rectangular: the nine columns of a detail frame hold
\* one value for each span, in the order of the spans; the four columns of
\* a summary frame have one length and every row comes from one trace
C29_FramesRectangular ==
    \A f \in FramesGiven :
        IF f.PreferredVisualization = "trace"
        THEN DetailRectangular(f)
        ELSE SummaryRectangular(f)

====
